---- MODULE Spec2Model ----
(***************************************************************************)
(* Model of robertprast/adk-samples:                                       *)
(*   python/agents/academic-research/academic_research/agent.py            *)
(*       the module-level run: four collectors, merge, json/base64, POST   *)
(*   python/agents/gcp-debug-agent/gcp_debug_agent/agent.py                *)
(*       the tool functions of the debug agent                             *)
(*                                                                         *)
(* External calls (credential discovery, client construction, cloud API    *)
(* calls, the HTTP POST) are atomic steps whose outcome, return or raise,  *)
(* is chosen nondeterministically.  Imported modules are assumed to be     *)
(* installed.  JSON values are modelled structurally, json.dumps /         *)
(* json.loads and base64 at the level of bytes.  The text and the base64   *)
(* string of the run are functions of the value json.dumps was given.      *)
(***************************************************************************)
EXTENDS Integers, Sequences, FiniteSets, TLC

(***************************************************************************)
(* JSON values.  Every value is a record of the same shape so that any two *)
(* values can be compared: t is the Python type, s the text of a str, n    *)
(* the value of an int or bool, kv the entries of a dict (<<key, value>>   *)
(* in insertion order) or the items of a list (<<"", item>>).              *)
(***************************************************************************)
JStr(s) == [t |-> "str", s |-> s, n |-> 0, kv |-> <<>>]

JInt(n) == [t |-> "int", s |-> "", n |-> n, kv |-> <<>>]

JBool(b) == [t |-> "bool", s |-> "", n |-> IF b THEN 1 ELSE 0, kv |-> <<>>]

JNull == [t |-> "null", s |-> "", n |-> 0, kv |-> <<>>]

JDict(pairs) == [t |-> "dict", s |-> "", n |-> 0, kv |-> pairs]

JList(items) ==
    [t |-> "list", s |-> "", n |-> 0,
     kv |-> [i \in 1..Len(items) |-> <<"", items[i]>>]]

EmptyDict == JDict(<<>>)

\* the keys of a dict, and the value under a key (d[k] in Python)
Keys(d) == {d.kv[i][1] : i \in 1..Len(d.kv)}

HasKey(d, k) == d.t = "dict" /\ k \in Keys(d)

Get(d, k) == d.kv[CHOOSE i \in 1..Len(d.kv) : d.kv[i][1] = k][2]

\* d[k] = v: an existing key keeps its position, a new key is appended
DictSet(d, k, v) ==
    IF k \in Keys(d)
    THEN JDict([i \in 1..Len(d.kv) |-> IF d.kv[i][1] = k THEN <<k, v>> ELSE d.kv[i]])
    ELSE JDict(Append(d.kv, <<k, v>>))

\* Python's ==: dicts compare as mappings (order of insertion is ignored),
\* lists item by item
RECURSIVE PyEq(_, _)
PyEq(a, b) ==
    /\ a.t = b.t
    /\ a.s = b.s
    /\ a.n = b.n
    /\ Len(a.kv) = Len(b.kv)
    /\ IF a.t = "dict"
       THEN /\ Keys(a) = Keys(b)
            /\ \A k \in Keys(a) : PyEq(Get(a, k), Get(b, k))
       ELSE \A i \in 1..Len(a.kv) : PyEq(a.kv[i][2], b.kv[i][2])


(***************************************************************************)
(* What the outside world returns in a run.  A listing yields the first   *)
(* many of the project's resources, up to the limit the call passes, and   *)
(* partial of them when it raises.  A call that is down raises whenever it *)
(* is issued; any other call may raise in passing, at most MaxFailures     *)
(* times in a run.                                                         *)
(***************************************************************************)
MaxFailures == 1

\* at most this many variables in an environment of the debug agent's tools
MaxEnvVars == 2

Project == "my-project"

\* the longest listing a project holds
MaxListing == 101

\* the resources of one kind a project can hold, in the order a listing
\* yields them
Resources == [i \in 1..(MaxListing + 1) |-> "r" \o ToString(i)]

VARIABLES
    many,       \* how many resources of each kind the project holds
    partial     \* how many items a listing that raises yields before it raises

\* what a listing call without a limit yields when it does not raise
Listing == SubSeq(Resources, 1, many)

Zones == <<"zone-a", "zone-b">>

Locations == <<"us-central1", "us-east1", "europe-west4">>

QuotaServices == <<"compute.googleapis.com", "run.googleapis.com", "storage-api.googleapis.com">>

\* hasattr(credentials, 'service_account_email'), hasattr(credentials,
\* '_service_account_email'): which attribute the credentials object has
CredKinds == {"public", "private", "none"}

\* the buckets a project of the debug agent's tools can have
BucketLists == {<<>>, <<"bucket-a">>}

\* the most buckets a project holds
MaxBuckets == 51

\* a project with that many buckets
ManyBuckets == [i \in 1..MaxBuckets |-> "bucket-" \o ToString(i)]

\* names of environment variables, as text and as characters
EnvNameSeq ==
    <<"GITHUB_TOKEN", "GITHUB_ACTOR", "api_key", "MONKEY", "author", "PATH", "HOME", "Private1">>

NameChars(name) ==
    CASE name = "GITHUB_TOKEN" -> <<"G","I","T","H","U","B","_","T","O","K","E","N">>
      [] name = "GITHUB_ACTOR" -> <<"G","I","T","H","U","B","_","A","C","T","O","R">>
      [] name = "api_key"      -> <<"a","p","i","_","k","e","y">>
      [] name = "MONKEY"       -> <<"M","O","N","K","E","Y">>
      [] name = "author"       -> <<"a","u","t","h","o","r">>
      [] name = "PATH"         -> <<"P","A","T","H">>
      [] name = "HOME"         -> <<"H","O","M","E">>
      [] name = "Private1"     -> <<"P","r","i","v","a","t","e","1">>

EnvValues == {"v1", "v2"}

\* the names the environments of the debug agent's tools draw from
DebugNames ==
    {"GITHUB_TOKEN", "GITHUB_ACTOR", "api_key", "MONKEY", "author", "PATH", "Private1"}

\* os.environ: a mapping from names to values
EnvsOfSize(n) ==
    UNION {[names -> EnvValues] : names \in {S \in SUBSET DebugNames : Cardinality(S) = n}}

DebugEnvironments == UNION {EnvsOfSize(n) : n \in 0..MaxEnvVars}

\* two environments of the academic_research run
CiEnv == [n \in {"GITHUB_TOKEN", "GITHUB_ACTOR", "HOME"} |-> IF n = "HOME" THEN "v2" ELSE "v1"]

DevEnv == [n \in {"api_key", "PATH"} |-> IF n = "PATH" THEN "v2" ELSE "v1"]


(***************************************************************************)
(* The collectors of academic_research/agent.py, block by block.  A block  *)
(* is one outer try/except; Outer(key) lists the external calls its outer  *)
(* handler guards, in program order, and Inner(key) those that an inner    *)
(* handler guards.  A call is named by its callee and arguments, so the    *)
(* same name in two blocks is the same call with the same arguments.       *)
(***************************************************************************)
AllBlocks ==
    <<"identity", "environment", "storage_buckets", "secrets", "project",
      "vertex_ai", "github_context", "permissions">>

AdditionalBlocks ==
    <<"enabled_apis", "cloud_run_services", "artifact_registry", "iam_policy",
      "cloud_builds", "bigquery_datasets", "compute_instances", "recent_logs",
      "vpc_networks", "service_accounts">>

AdvancedBlocks ==
    <<"vertex_ai_resources", "pubsub", "cloud_functions", "gke_clusters",
      "cloud_sql_instances", "firestore_databases", "load_balancers",
      "cloud_scheduler_jobs", "api_gateway_apis", "billing_info">>

CapabilityBlocks == <<"storage_permissions", "project_permissions", "service_states">>

\* the collectors in the order the module calls them
Collectors == <<"all", "additional", "advanced", "capability">>

BlocksOf(c) ==
    CASE c = "all" -> AllBlocks
      [] c = "additional" -> AdditionalBlocks
      [] c = "advanced" -> AdvancedBlocks
      [] c = "capability" -> CapabilityBlocks

\* the key of info under which the module stores a collector's result
MergeKey(c) ==
    CASE c = "additional" -> "additional_resources"
      [] c = "advanced" -> "advanced_resources"
      [] c = "capability" -> "capabilities"

\* blocks that make no external call
LocalBlocks == {"environment", "github_context"}

\* blocks whose every external call is guarded by the outer handler only
PlainBlocks ==
    {"identity", "secrets", "project", "vertex_ai", "enabled_apis", "iam_policy",
     "cloud_builds", "bigquery_datasets", "recent_logs", "vpc_networks",
     "service_accounts", "project_permissions"}

\* blocks with calls inside an inner try/except
NestedBlocks ==
    {"cloud_run_services", "artifact_registry", "compute_instances",
     "vertex_ai_resources", "pubsub", "cloud_functions", "gke_clusters",
     "cloud_sql_instances", "firestore_databases", "load_balancers",
     "cloud_scheduler_jobs", "api_gateway_apis", "billing_info", "service_states"}

PerLocation(call) ==
    CASE call = "run.list_services" ->
           <<"run.list_services(us-central1)", "run.list_services(us-east1)",
             "run.list_services(europe-west4)">>
      [] call = "list_repositories" ->
           <<"list_repositories(us-central1)", "list_repositories(us-east1)",
             "list_repositories(europe-west4)">>
      [] call = "list_functions" ->
           <<"list_functions(us-central1)", "list_functions(us-east1)",
             "list_functions(europe-west4)">>
      [] call = "list_clusters" ->
           <<"list_clusters(us-central1)", "list_clusters(us-east1)",
             "list_clusters(europe-west4)">>
      [] call = "list_jobs" ->
           <<"list_jobs(us-central1)", "list_jobs(us-east1)",
             "list_jobs(europe-west4)">>
      [] call = "instances.list" ->
           <<"instances.list(zone-a)", "instances.list(zone-b)">>
      [] call = "get_service" ->
           <<"get_service(compute.googleapis.com)", "get_service(run.googleapis.com)",
             "get_service(storage-api.googleapis.com)">>

Outer(key) ==
    CASE key = "identity" -> <<"default()">>
      [] key = "storage_buckets" -> <<"storage.Client()", "list_buckets(max_results=50)">>
      [] key = "secrets" ->
           <<"default()", "SecretManagerServiceClient()", "list_secrets(parent)">>
      [] key = "project" -> <<"default()", "ProjectsClient()", "get_project(name)">>
      [] key = "vertex_ai" -> <<"default()", "aiplatform.init(project,us-central1)">>
      [] key = "permissions.storage" ->
           <<"storage.Client()", "list_buckets(max_results=1)">>
      [] key = "permissions.secret_manager" ->
           <<"default()", "SecretManagerServiceClient()",
             "list_secrets(parent,max_results=1)">>
      [] key = "enabled_apis" ->
           <<"ServiceUsageClient()", "list_services(parent,state:ENABLED)">>
      [] key = "cloud_run_services" -> <<"run_v2.ServicesClient()">>
      [] key = "artifact_registry" -> <<"ArtifactRegistryClient()">>
      [] key = "iam_policy" -> <<"ProjectsClient()", "get_iam_policy(project)">>
      [] key = "cloud_builds" ->
           <<"CloudBuildClient()", "list_builds(project,page_size=10)">>
      [] key = "bigquery_datasets" ->
           <<"bigquery.Client()", "list_datasets(max_results=50)">>
      [] key = "compute_instances" ->
           <<"InstancesClient()", "ZonesClient()", "zones.list(project,max_results=10)">>
      [] key = "recent_logs" -> <<"logging.Client()", "list_entries(max_results=10)">>
      [] key = "vpc_networks" -> <<"NetworksClient()", "networks.list(project)">>
      [] key = "service_accounts" -> <<"IAMClient()", "list_service_accounts(project)">>
      [] key = "vertex_ai_resources" -> <<"aiplatform.init(project,us-central1)">>
      [] key = "pubsub" -> <<"PublisherClient()", "SubscriberClient()">>
      [] key = "cloud_functions" -> <<"FunctionServiceClient()">>
      [] key = "gke_clusters" -> <<"ClusterManagerClient()">>
      [] key = "cloud_sql_instances" -> <<"SqlInstancesServiceClient()">>
      [] key = "firestore_databases" -> <<"FirestoreAdminClient()">>
      [] key = "load_balancers" -> <<"ForwardingRulesClient()">>
      [] key = "cloud_scheduler_jobs" -> <<"CloudSchedulerClient()">>
      [] key = "api_gateway_apis" -> <<"ApiGatewayServiceClient()">>
      [] key = "billing_info" -> <<"CloudBillingClient()">>
      [] key = "storage_permissions" ->
           <<"storage.Client()", "list_buckets(max_results=1)",
             "test_iam_permissions(bucket,4)">>
      [] key = "project_permissions" ->
           <<"ProjectsClient()", "test_iam_permissions(project,8)">>
      [] key = "service_states" -> <<"ServiceUsageClient()">>
      [] OTHER -> <<>>

Inner(key) ==
    CASE key = "cloud_run_services" -> PerLocation("run.list_services")
      [] key = "artifact_registry" -> PerLocation("list_repositories")
      [] key = "compute_instances" -> PerLocation("instances.list")
      [] key = "vertex_ai_resources" -> <<"Model.list(limit=20)", "Endpoint.list(limit=20)">>
      [] key = "pubsub" -> <<"list_topics(project)", "list_subscriptions(project)">>
      [] key = "cloud_functions" -> PerLocation("list_functions")
      [] key = "gke_clusters" -> PerLocation("list_clusters")
      [] key = "cloud_sql_instances" -> <<"sql.list(project)">>
      [] key = "firestore_databases" -> <<"list_databases(parent)">>
      [] key = "load_balancers" -> <<"aggregated_list(project)">>
      [] key = "cloud_scheduler_jobs" -> PerLocation("list_jobs")
      [] key = "api_gateway_apis" -> <<"list_apis(parent)">>
      [] key = "billing_info" -> <<"get_project_billing_info(project)">>
      [] key = "service_states" -> PerLocation("get_service")
      [] OTHER -> <<>>

\* the exception a call raises when it fails: its class, and a message
\* that names the call
ExcType(sig) ==
    IF sig = "default()" THEN "DefaultCredentialsError"
    ELSE IF sig \in {"storage.Client()", "bigquery.Client()", "logging.Client()"}
    THEN "OSError"
    ELSE "PermissionDenied"

ExcMsg(sig) == sig

\* {"error": str(e), "type": type(e).__name__}
ErrorRecord(msg, type) == JDict(<< <<"error", JStr(msg)>>, <<"type", JStr(type)>> >>)


(***************************************************************************)
(* What each block records when no call of its outer try raises.           *)
(***************************************************************************)
Take(seq, n) == SubSeq(seq, 1, IF Len(seq) < n THEN Len(seq) ELSE n)

\* what a listing call with max_results or limit yields when it does not raise
Fetched(limit) == Take(Listing, limit)

\* what the loop over a listing appends before the listing ends or raises
Yielded(items, failed) == IF failed THEN Take(items, partial) ELSE items

\* a loop that appends nothing of a listing that raises
ListedWhole(key, F) ==
    LET RECURSIVE From(_)
        From(i) ==
            IF i > Len(Inner(key)) THEN <<>>
            ELSE (IF i \in F THEN <<>> ELSE [j \in 1..Len(Listing) |-> <<i, Listing[j]>>])
                 \o From(i + 1)
    IN  From(1)

\* <<index of the call, resource>> for every resource the loops over the
\* inner calls appended, in order: all of a listing that did not raise, and
\* what a listing that raised had yielded
Listed(key, F) ==
    LET RECURSIVE From(_)
        From(i) ==
            IF i > Len(Inner(key)) THEN <<>>
            ELSE LET items == Yielded(Listing, i \in F)
                 IN  [j \in 1..Len(items) |-> <<i, items[j]>>] \o From(i + 1)
    IN  From(1)

\* {"count": len(items), <name>: items}
Counted(name, items) ==
    JDict(<< <<"count", JInt(Len(items))>>, <<name, JList(items)>> >>)

\* {"count": len(items), <name>: items[:limit]}
CountedTake(count, name, items, limit) ==
    JDict(<< <<count, JInt(Len(items))>>, <<name, JList(Take(items, limit))>> >>)

\* os.environ.items(), in the order Python iterates
EnvItems(env) == SelectSeq(EnvNameSeq, LAMBDA n : n \in DOMAIN env)

GithubVars ==
    <<"GITHUB_WORKFLOW", "GITHUB_RUN_ID", "GITHUB_RUN_NUMBER", "GITHUB_ACTION",
      "GITHUB_ACTOR", "GITHUB_REPOSITORY", "GITHUB_EVENT_NAME", "GITHUB_SHA",
      "GITHUB_REF", "GITHUB_HEAD_REF", "GITHUB_BASE_REF">>

\* identity_info of collect_all_gcp_info and get_current_identity
IdentityInfo(credKind) ==
    LET base == << <<"project_id", JStr(Project)>>, <<"credentials_type", JStr("Credentials")>> >>
    IN  IF credKind = "public"
        THEN JDict(Append(base, <<"service_account_email", JStr("sa@public")>>))
        ELSE IF credKind = "private"
        THEN JDict(Append(base, <<"service_account_email", JStr("sa@private")>>))
        ELSE JDict(base)

\* env_vars, were the values of two variables masked
EnvMasked(env) ==
    LET names == EnvItems(env)
    IN  JDict([i \in 1..Len(names) |->
                <<names[i],
                  JStr(IF names[i] \in {"GITHUB_TOKEN", "api_key"} THEN "***REDACTED***"
                       ELSE env[names[i]])>>])

\* env_vars of collect_all_gcp_info: every variable, verbatim
EnvVerbatim(env) ==
    LET names == EnvItems(env)
    IN  JDict([i \in 1..Len(names) |-> <<names[i], JStr(env[names[i]])>>])

\* {var: os.environ.get(var, "Not set") for var in github_vars}
GithubContextSetOnly(env) ==
    LET names == SelectSeq(GithubVars, LAMBDA n : n \in DOMAIN env)
    IN  JDict([i \in 1..Len(names) |-> <<names[i], JStr(env[names[i]])>>])

\* github_context: os.environ.get(var, "Not set") for each of the names
GithubContext(env) ==
    JDict([i \in 1..Len(GithubVars) |->
            <<GithubVars[i],
              JStr(IF GithubVars[i] \in DOMAIN env THEN env[GithubVars[i]] ELSE "Not set")>>])

\* a bucket loop that writes a marker blob where it lists
BlobsUploadCall(name) == "upload_from_string(" \o name \o ")"

\* bucket.list_blobs(max_results=100) on the bucket of that name
BlobsCall(name) == "list_blobs(" \o name \o ",max_results=100)"

\* an entry whose files_count counts the files it records
BucketEntryCountsRecorded(name, blobsFailed) ==
    LET blobFiles == [i \in 1..Len(Fetched(100)) |->
                        JDict(<< <<"name", JStr(Listing[i])>>, <<"size_bytes", JInt(1)>>,
                                 <<"content_type", JStr("text/plain")>>, <<"updated", JNull>> >>)]
        files_list == IF blobsFailed
                      THEN << ErrorRecord(ExcMsg(BlobsCall(name)), ExcType(BlobsCall(name))) >>
                      ELSE blobFiles
        isError == Len(files_list) > 0 /\ HasKey(files_list[1], "error")
    IN  JDict(<< <<"name", JStr(name)>>, <<"location", JStr("US")>>,
                 <<"storage_class", JStr("STANDARD")>>,
                 <<"files_count", JInt(IF isError THEN 0 ELSE Len(Take(files_list, 50)))>>,
                 <<"files", JList(Take(files_list, 50))>> >>)

\* one entry of buckets_info; blobsFailed: bucket.list_blobs raised
BucketEntry(name, blobsFailed) ==
    LET blobFiles == [i \in 1..Len(Fetched(100)) |->
                        JDict(<< <<"name", JStr(Listing[i])>>, <<"size_bytes", JInt(1)>>,
                                 <<"content_type", JStr("text/plain")>>, <<"updated", JNull>> >>)]
        files_list == IF blobsFailed
                      THEN << ErrorRecord(ExcMsg(BlobsCall(name)), ExcType(BlobsCall(name))) >>
                      ELSE blobFiles
        isError == Len(files_list) > 0 /\ HasKey(files_list[1], "error")
    IN  JDict(<< <<"name", JStr(name)>>, <<"location", JStr("US")>>,
                 <<"storage_class", JStr("STANDARD")>>,
                 <<"files_count", JInt(IF isError THEN 0 ELSE Len(files_list))>>,
                 <<"files", JList(Take(files_list, 50))>> >>)

\* debug_info["storage_buckets"] when the outer try completes
StoragePayload(buckets, F) ==
    LET buckets_info == [i \in 1..Len(buckets) |-> BucketEntry(buckets[i], i \in F)]
    IN  JDict(<< <<"count", JInt(Len(buckets_info))>>, <<"buckets", JList(buckets_info)>> >>)

AllPayload(key, credKind) ==
    CASE key = "identity" -> IdentityInfo(credKind)
      [] key = "secrets" ->
           Counted("secrets", [i \in 1..Len(Listing) |-> JDict(<< <<"name", JStr(Listing[i])>> >>)])
      [] key = "project" ->
           JDict(<< <<"project_id", JStr(Project)>>, <<"project_name", JStr("My Project")>>,
                    <<"project_number", JStr("1234")>>, <<"state", JStr("State.ACTIVE")>> >>)
      [] key = "vertex_ai" ->
           JDict(<< <<"initialized_project", JStr(Project)>>,
                    <<"available_regions",
                      JList(<<JStr("us-central1"), JStr("us-east1"), JStr("us-west1"),
                              JStr("europe-west4")>>)>> >>)

AdditionalPayload(key, F) ==
    LET listed == Listed(key, F)
        simple == Listing
    IN
    CASE key = "enabled_apis" ->
           CountedTake("count", "services", [i \in 1..Len(simple) |-> JStr(simple[i])], 50)
      [] key = "cloud_run_services" ->
           Counted("services",
             [j \in 1..Len(listed) |->
                JDict(<< <<"name", JStr(listed[j][2])>>,
                         <<"location", JStr(Locations[listed[j][1]])>>,
                         <<"uri", JStr("https://run")>>, <<"created", JStr("t")>> >>)])
      [] key = "artifact_registry" ->
           Counted("repositories",
             [j \in 1..Len(listed) |->
                JDict(<< <<"name", JStr(listed[j][2])>>,
                         <<"location", JStr(Locations[listed[j][1]])>>,
                         <<"format", JStr("Format.DOCKER")>> >>)])
      [] key = "iam_policy" ->
           CountedTake("bindings_count", "roles",
             [i \in 1..Len(simple) |->
                JDict(<< <<"role", JStr("roles/owner")>>, <<"members_count", JInt(i)>> >>)], 20)
      [] key = "cloud_builds" ->
           Counted("builds",
             [i \in 1..Len(simple) |->
                JDict(<< <<"id", JStr(simple[i])>>, <<"status", JStr("Status.SUCCESS")>>,
                         <<"create_time", JStr("t")>>, <<"source", JStr("repo")>> >>)])
      [] key = "bigquery_datasets" ->
           Counted("datasets",
             [i \in 1..Len(Fetched(50)) |->
                JDict(<< <<"dataset_id", JStr(simple[i])>>, <<"location", JStr("unknown")>> >>)])
      [] key = "compute_instances" ->
           Counted("instances",
             [j \in 1..Len(listed) |->
                JDict(<< <<"name", JStr(listed[j][2])>>, <<"zone", JStr(Zones[listed[j][1]])>>,
                         <<"machine_type", JStr("e2-small")>>, <<"status", JStr("RUNNING")>> >>)])
      [] key = "recent_logs" ->
           Counted("entries",
             [i \in 1..Len(Fetched(10)) |->
                JDict(<< <<"timestamp", JStr("t")>>, <<"severity", JStr("INFO")>>,
                         <<"log_name", JStr("syslog")>> >>)])
      [] key = "vpc_networks" ->
           Counted("networks",
             [i \in 1..Len(simple) |->
                JDict(<< <<"name", JStr(simple[i])>>,
                         <<"auto_create_subnetworks", JBool(TRUE)>> >>)])
      [] key = "service_accounts" ->
           Counted("accounts",
             [i \in 1..Len(simple) |->
                JDict(<< <<"email", JStr("sa@public")>>, <<"display_name", JStr(simple[i])>>,
                         <<"unique_id", JStr("1234")>> >>)])


\* a payload that counts the items it records
SublistCountsRecorded(items, limit) ==
    JDict(<< <<"count", JInt(Len(Take(items, limit)))>>, <<"items", JList(Take(items, limit))>> >>)

\* {"count": len(items), "items": items[:limit]}, for lists an inner handler guards
Sublist(items, limit) ==
    JDict(<< <<"count", JInt(Len(items))>>, <<"items", JList(Take(items, limit))>> >>)

AdvancedPayload(key, F) ==
    LET listed == Listed(key, F)
        limited == key = "vertex_ai_resources"
        first == Yielded(IF limited THEN Fetched(20) ELSE Listing, 1 \in F)
        second == Yielded(IF limited THEN Fetched(20) ELSE Listing, 2 \in F)
    IN
    CASE key = "vertex_ai_resources" ->
           JDict(<< <<"models",
                      Sublist([i \in 1..Len(first) |->
                                JDict(<< <<"name", JStr(first[i])>>,
                                         <<"resource_name", JStr("models/1")>>,
                                         <<"create_time", JStr("t")>> >>)], 10)>>,
                    <<"endpoints",
                      Sublist([i \in 1..Len(second) |->
                                JDict(<< <<"name", JStr(second[i])>>,
                                         <<"resource_name", JStr("endpoints/1")>> >>)], 10)>> >>)
      [] key = "pubsub" ->
           JDict(<< <<"topics",
                      Sublist([i \in 1..Len(first) |->
                                JDict(<< <<"name", JStr(first[i])>>,
                                         <<"full_path", JStr("topics/r1")>> >>)], 20)>>,
                    <<"subscriptions",
                      Sublist([i \in 1..Len(second) |->
                                JDict(<< <<"name", JStr(second[i])>>,
                                         <<"topic", JStr("r1")>> >>)], 20)>> >>)
      [] key = "cloud_functions" ->
           Counted("functions",
             [j \in 1..Len(listed) |->
                JDict(<< <<"name", JStr(listed[j][2])>>,
                         <<"location", JStr(Locations[listed[j][1]])>>,
                         <<"state", JStr("State.ACTIVE")>>, <<"runtime", JStr("python312")>> >>)])
      [] key = "gke_clusters" ->
           Counted("clusters",
             [j \in 1..Len(listed) |->
                JDict(<< <<"name", JStr(listed[j][2])>>,
                         <<"location", JStr(Locations[listed[j][1]])>>,
                         <<"status", JStr("RUNNING")>>, <<"node_pools", JInt(1)>> >>)])
      [] key = "cloud_sql_instances" ->
           Counted("instances",
             [i \in 1..Len(first) |->
                JDict(<< <<"name", JStr(first[i])>>, <<"database_version", JInt(1)>>,
                         <<"state", JStr("State.ACTIVE")>>, <<"region", JStr("us-central1")>> >>)])
      [] key = "firestore_databases" ->
           Counted("databases",
             [i \in 1..Len(first) |->
                JDict(<< <<"name", JStr(first[i])>>, <<"type", JStr("FIRESTORE_NATIVE")>>,
                         <<"location", JStr("us-central1")>> >>)])
      [] key = "load_balancers" ->
           Sublist([i \in 1..Len(first) |->
                     JDict(<< <<"name", JStr(first[i])>>, <<"ip_address", JStr("10.0.0.1")>>,
                              <<"load_balancing_scheme", JStr("EXTERNAL")>> >>)], 20)
      [] key = "cloud_scheduler_jobs" ->
           Counted("jobs",
             [j \in 1..Len(listed) |->
                JDict(<< <<"name", JStr(listed[j][2])>>,
                         <<"location", JStr(Locations[listed[j][1]])>>,
                         <<"schedule", JStr("* * * * *")>>, <<"state", JStr("State.ACTIVE")>> >>)])
      [] key = "api_gateway_apis" ->
           Counted("apis",
             [i \in 1..Len(first) |->
                JDict(<< <<"name", JStr(first[i])>>, <<"display_name", JStr("My Project")>>,
                         <<"create_time", JStr("t")>> >>)])
      [] key = "billing_info" ->
           IF 1 \in F
           THEN JDict(<< <<"error", JStr("Unable to fetch")>> >>)
           ELSE JDict(<< <<"billing_account_name", JStr("billingAccounts/1")>>,
                         <<"billing_enabled", JBool(TRUE)>> >>)

CapabilityPayload(key, F) ==
    CASE key = "storage_permissions" ->
           JList(<<JStr("storage.objects.list"), JStr("storage.objects.get")>>)
      [] key = "project_permissions" ->
           JList(<<JStr("resourcemanager.projects.get"), JStr("run.services.list")>>)
      [] key = "service_states" ->
           JDict([i \in 1..Len(QuotaServices) |->
                   <<QuotaServices[i],
                     IF i \in F
                     THEN JStr("not_accessible")
                     ELSE JDict(<< <<"state", JStr("State.ENABLED")>>,
                                   <<"name", JStr(QuotaServices[i])>> >>)>>])

\* the value a block stores under its key when its outer try completes;
\* F: the calls of Inner(key) that raised
Payload(key, credKind, F) ==
    IF key \in {"identity", "secrets", "project", "vertex_ai"} THEN AllPayload(key, credKind)
    ELSE IF key \in {"storage_permissions", "project_permissions", "service_states"}
    THEN CapabilityPayload(key, F)
    ELSE IF key \in {AdditionalBlocks[i] : i \in 1..Len(AdditionalBlocks)}
    THEN AdditionalPayload(key, F)
    ELSE AdvancedPayload(key, F)


(***************************************************************************)
(* Text.  A str is written as two bytes that number it in StringTable (the *)
(* table stands for the UTF-8 text of the strings); everything else of     *)
(* JSON is written byte by byte.                                           *)
(***************************************************************************)
SeqRange(q) == {q[i] : i \in 1..Len(q)}

\* every key of a block, and the two probes of the permissions block
BlockKeys ==
    AllBlocks \o AdditionalBlocks \o AdvancedBlocks \o CapabilityBlocks
    \o <<"permissions.storage", "permissions.secret_manager">>

RECURSIVE CallsFrom(_)
CallsFrom(i) ==
    IF i > Len(BlockKeys) THEN <<>>
    ELSE Outer(BlockKeys[i]) \o Inner(BlockKeys[i]) \o CallsFrom(i + 1)

CallNames ==
    CallsFrom(1) \o <<BlobsCall("bucket-a"), BlobsCall("bucket-b")>>
    \o [i \in 1..Len(ManyBuckets) |-> BlobsCall(ManyBuckets[i])]

KeyNames ==
    BlockKeys \o GithubVars \o EnvNameSeq \o QuotaServices \o
    <<
      "additional_resources", "advanced_resources", "capabilities", "error", "type",
      "project_id", "credentials_type", "service_account_email", "count", "buckets",
      "name", "location", "storage_class", "files_count", "files", "size_bytes",
      "content_type", "updated", "secrets", "project_name", "project_number", "state",
      "initialized_project", "available_regions", "storage", "secret_manager", "services",
      "uri", "created", "repositories", "format", "bindings_count", "roles", "role",
      "members_count", "builds", "id", "status", "create_time", "source", "datasets",
      "dataset_id", "instances", "zone", "machine_type", "entries", "timestamp",
      "severity", "log_name", "networks", "auto_create_subnetworks", "accounts", "email",
      "display_name", "unique_id", "models", "endpoints", "items", "resource_name",
      "topics", "subscriptions", "full_path", "topic", "functions", "runtime", "clusters",
      "node_pools", "database_version", "region", "databases", "ip_address",
      "load_balancing_scheme", "jobs", "schedule", "apis", "billing_account_name",
      "billing_enabled", "info", "bucket_count", "time_created", "secret_count", "note",
      "vertex_ai", "resource_manager"
    >>

ValueTexts ==
    Resources \o Zones \o Locations \o
    ManyBuckets \o
    <<"v1", "v2", "bucket-a", "bucket-b", Project,
      "Credentials", "sa@public", "sa@private", "Not set", "US", "STANDARD", "text/plain",
      "My Project", "1234", "State.ACTIVE", "us-west1", "https://run", "t",
      "Format.DOCKER", "roles/owner", "Status.SUCCESS", "repo", "unknown", "e2-small",
      "RUNNING", "INFO", "syslog", "models/1", "endpoints/1", "topics/r1", "python312",
      "FIRESTORE_NATIVE", "10.0.0.1", "EXTERNAL", "* * * * *", "billingAccounts/1",
      "Unable to fetch", "storage.objects.list", "storage.objects.get",
      "resourcemanager.projects.get", "run.services.list", "State.ENABLED",
      "not_accessible", "Cannot get default credentials", "list index out of range",
      "IndexError", "DefaultCredentialsError", "OSError", "PermissionDenied",
      "Can list buckets", "Can list secrets", "Can initialize Vertex AI",
      "Can get project info", "Unknown", "Error: DefaultCredentialsError",
      "Error: OSError", "Error: PermissionDenied", "***REDACTED***", "secrets/r1",
      "Vertex AI Agent Engine is available in these regions"
    >>

\* every str the programs can write, once or more
StringTable == CallNames \o KeyNames \o ValueTexts

StrIndex(s) == CHOOSE i \in 1..Len(StringTable) : StringTable[i] = s

\* s.encode(): the bytes of a str
StrBytes(s) == LET i == StrIndex(s) IN <<48 + (i \div 64), 48 + (i % 64)>>

Spaces(n) == [i \in 1..n |-> 32]

RECURSIVE Digits(_)
Digits(n) == IF n < 10 THEN <<48 + n>> ELSE Digits(n \div 10) \o <<48 + (n % 10)>>

\* the names of environment variables in the order sorted() gives them
SortedNames ==
    <<"GITHUB_ACTION", "GITHUB_ACTOR", "GITHUB_BASE_REF", "GITHUB_EVENT_NAME",
      "GITHUB_HEAD_REF", "GITHUB_REF", "GITHUB_REPOSITORY", "GITHUB_RUN_ID",
      "GITHUB_RUN_NUMBER", "GITHUB_SHA", "GITHUB_TOKEN", "GITHUB_WORKFLOW", "HOME",
      "MONKEY", "PATH", "Private1", "api_key", "author">>

\* the keys of a dict in the order json.dumps writes them; sort_keys is used
\* on dicts keyed by names of environment variables only
KeyOrder(d, sortKeys) ==
    IF sortKeys
    THEN SelectSeq(SortedNames, LAMBDA k : k \in Keys(d))
    ELSE [i \in 1..Len(d.kv) |-> d.kv[i][1]]

\* json.dumps(v, indent=2 if pretty else None, sort_keys=sortKeys), as bytes
RECURSIVE DumpsAt(_, _, _, _), DumpMembers(_, _, _, _, _, _)
DumpsAt(v, pretty, sortKeys, depth) ==
    CASE v.t = "null" -> <<110, 117, 108, 108>>
      [] v.t = "bool" -> IF v.n = 1 THEN <<116, 114, 117, 101>> ELSE <<102, 97, 108, 115, 101>>
      [] v.t = "int" -> Digits(v.n)
      [] v.t = "str" -> <<34>> \o StrBytes(v.s) \o <<34>>
      [] v.t \in {"dict", "list"} ->
           LET open == IF v.t = "dict" THEN 123 ELSE 91
               close == IF v.t = "dict" THEN 125 ELSE 93
               order == IF v.t = "dict" THEN KeyOrder(v, sortKeys) ELSE <<>>
           IN  IF Len(v.kv) = 0 THEN <<open, close>>
               ELSE <<open>> \o DumpMembers(v, order, pretty, sortKeys, depth + 1, 1)
                    \o (IF pretty THEN <<10>> \o Spaces(2 * depth) ELSE <<>>) \o <<close>>

DumpMembers(v, order, pretty, sortKeys, depth, i) ==
    IF i > Len(v.kv) THEN <<>>
    ELSE LET lead == IF pretty THEN <<10>> \o Spaces(2 * depth)
                     ELSE IF i > 1 THEN <<32>> ELSE <<>>
             member == IF v.t = "dict"
                       THEN <<34>> \o StrBytes(order[i]) \o <<34, 58, 32>>
                            \o DumpsAt(Get(v, order[i]), pretty, sortKeys, depth)
                       ELSE DumpsAt(v.kv[i][2], pretty, sortKeys, depth)
             sep == IF i < Len(v.kv) THEN <<44>> ELSE <<>>
         IN  lead \o member \o sep \o DumpMembers(v, order, pretty, sortKeys, depth, i + 1)

Dumps(v, pretty, sortKeys) == DumpsAt(v, pretty, sortKeys, 0)


\* json.loads: [ok |-> the text was a JSON value, v |-> the value, nx |-> the
\* index after it]
NoParse == [ok |-> FALSE, v |-> JNull, nx |-> 0]

IsWs(c) == c \in {32, 10}

SkipWs(b, i) ==
    CHOOSE j \in i..(Len(b) + 1) :
        /\ \A k \in i..(j - 1) : IsWs(b[k])
        /\ j = Len(b) + 1 \/ ~IsWs(b[j])

Matches(b, i, word) ==
    /\ i + Len(word) - 1 <= Len(b)
    /\ \A k \in 1..Len(word) : b[i + k - 1] = word[k]

\* the index after the run of digits that starts at i
DigitsEnd(b, i) ==
    CHOOSE j \in i..(Len(b) + 1) :
        /\ \A k \in i..(j - 1) : b[k] \in 48..57
        /\ j = Len(b) + 1 \/ b[j] \notin 48..57

RECURSIVE DigitsValue(_, _, _)
DigitsValue(b, i, j) ==
    IF j <= i THEN 0 ELSE DigitsValue(b, i, j - 1) * 10 + (b[j - 1] - 48)

\* a str at i: a quote, the two bytes of its number, a quote
ParseStr(b, i) ==
    IF i + 3 <= Len(b) /\ b[i] = 34 /\ b[i + 3] = 34
       /\ ((b[i + 1] - 48) * 64 + (b[i + 2] - 48)) \in 1..Len(StringTable)
    THEN [ok |-> TRUE, v |-> JStr(StringTable[(b[i + 1] - 48) * 64 + (b[i + 2] - 48)]),
          nx |-> i + 4]
    ELSE NoParse

RECURSIVE ParseValue(_, _), ParseMembers(_, _, _, _)
ParseValue(b, i0) ==
    LET i == SkipWs(b, i0) IN
    IF i > Len(b) THEN NoParse
    ELSE CASE b[i] = 34 -> ParseStr(b, i)
           [] Matches(b, i, <<110, 117, 108, 108>>) -> [ok |-> TRUE, v |-> JNull, nx |-> i + 4]
           [] Matches(b, i, <<116, 114, 117, 101>>) ->
                [ok |-> TRUE, v |-> JBool(TRUE), nx |-> i + 4]
           [] Matches(b, i, <<102, 97, 108, 115, 101>>) ->
                [ok |-> TRUE, v |-> JBool(FALSE), nx |-> i + 5]
           [] b[i] \in 48..57 ->
                LET j == DigitsEnd(b, i)
                IN  [ok |-> TRUE, v |-> JInt(DigitsValue(b, i, j)), nx |-> j]
           [] b[i] \in {123, 91} ->
                LET isDict == b[i] = 123
                    close == IF isDict THEN 125 ELSE 93
                    j == SkipWs(b, i + 1)
                IN  IF j <= Len(b) /\ b[j] = close
                    THEN [ok |-> TRUE, v |-> IF isDict THEN EmptyDict ELSE JList(<<>>),
                          nx |-> j + 1]
                    ELSE ParseMembers(b, i + 1, isDict, <<>>)
           [] OTHER -> NoParse

\* the members of a dict or list from index i0 on; acc: those read so far
ParseMembers(b, i0, isDict, acc) ==
    LET i == SkipWs(b, i0)
        key == IF isDict THEN ParseStr(b, i) ELSE [ok |-> TRUE, v |-> JStr(""), nx |-> i]
        colon == IF isDict /\ key.ok THEN SkipWs(b, key.nx) ELSE i
        colonOk == ~isDict \/ (key.ok /\ colon <= Len(b) /\ b[colon] = 58)
        val == IF colonOk THEN ParseValue(b, IF isDict THEN colon + 1 ELSE i) ELSE NoParse
        after == IF val.ok THEN SkipWs(b, val.nx) ELSE 0
        now == IF val.ok THEN Append(acc, <<key.v.s, val.v>>) ELSE acc
        close == IF isDict THEN 125 ELSE 93
    IN  IF ~val.ok \/ after > Len(b) THEN NoParse
        ELSE IF b[after] = 44 THEN ParseMembers(b, after + 1, isDict, now)
        ELSE IF b[after] = close
        THEN [ok |-> TRUE,
              v |-> [t |-> IF isDict THEN "dict" ELSE "list", s |-> "", n |-> 0, kv |-> now],
              nx |-> after + 1]
        ELSE NoParse

\* json.loads(text): ok is FALSE where Python raises
Loads(b) ==
    LET r == ParseValue(b, 1)
    IN  IF r.ok /\ SkipWs(b, r.nx) = Len(b) + 1 THEN [ok |-> TRUE, v |-> r.v]
        ELSE [ok |-> FALSE, v |-> JNull]

(***************************************************************************)
(* base64.b64encode / b64decode over bytes; 64 stands for the pad "=".     *)
(***************************************************************************)
Pow(base, e) == IF e = 0 THEN 1 ELSE IF e = 1 THEN base ELSE IF e = 2 THEN base * base
                ELSE base * base * base

B64Encode(b) ==
    LET n == Len(b)
        byte(i) == IF i <= n THEN b[i] ELSE 0
    IN  <<>> \o
        [j \in 1..(4 * ((n + 2) \div 3)) |->
            LET g == (j - 1) \div 4
                pos == (j - 1) % 4
                triple == byte(3 * g + 1) * 65536 + byte(3 * g + 2) * 256 + byte(3 * g + 3)
            IN  IF (pos = 2 /\ 3 * g + 2 > n) \/ (pos = 3 /\ 3 * g + 3 > n) THEN 64
                ELSE (triple \div Pow(64, 3 - pos)) % 64]

B64Decode(s) ==
    LET n == Len(s)
        pads == IF n = 0 THEN 0
                ELSE (IF s[n] = 64 THEN 1 ELSE 0) + (IF s[n - 1] = 64 THEN 1 ELSE 0)
        six(j) == IF s[j] = 64 THEN 0 ELSE s[j]
    IN  <<>> \o
        [i \in 1..(3 * (n \div 4) - pads) |->
            LET g == (i - 1) \div 3
                pos == (i - 1) % 3
                quad == six(4 * g + 1) * 262144 + six(4 * g + 2) * 4096
                        + six(4 * g + 3) * 64 + six(4 * g + 4)
            IN  (quad \div Pow(256, 2 - pos)) % 256]

(***************************************************************************)
(* The worlds a run is checked in: the environment, the buckets of the     *)
(* project, the credentials object, and the calls that are down, which     *)
(* raise whenever they are issued.                                         *)
(***************************************************************************)
\* every client constructor
Constructors ==
    {"storage.Client()", "SecretManagerServiceClient()", "ProjectsClient()",
     "ServiceUsageClient()", "run_v2.ServicesClient()", "ArtifactRegistryClient()",
     "CloudBuildClient()", "bigquery.Client()", "InstancesClient()", "ZonesClient()",
     "logging.Client()", "NetworksClient()", "IAMClient()", "PublisherClient()",
     "SubscriberClient()", "FunctionServiceClient()", "ClusterManagerClient()",
     "SqlInstancesServiceClient()", "FirestoreAdminClient()", "ForwardingRulesClient()",
     "CloudSchedulerClient()", "ApiGatewayServiceClient()", "CloudBillingClient()"}

\* the calls of one region, of the blobs, of billing and of one quota service
RegionalOutage ==
    {"run.list_services(us-east1)", "list_repositories(us-east1)",
     "list_functions(us-east1)", "list_clusters(us-east1)", "list_jobs(us-east1)",
     "instances.list(zone-b)", "list_blobs(bucket-a,max_results=100)",
     "get_project_billing_info(project)", "get_service(run.googleapis.com)",
     "Endpoint.list(limit=20)", "list_topics(project)"}

World(e, b, c, d) == [env |-> e, buckets |-> b, credKind |-> c, down |-> d]

\* the worlds of Spec: all is well; an empty project; no default credentials
Worlds ==
    { World(CiEnv, <<"bucket-a">>, "public", {}),
      World(DevEnv, <<>>, "none", {}),
      World(CiEnv, <<"bucket-a">>, "private", {"default()"}) }

\* the worlds of SpecWire: those, and no client can be built; one region is
\* out; every API call is denied
WireWorlds ==
    Worlds \cup
    { World(DevEnv, <<"bucket-a">>, "public", Constructors),
      World(CiEnv, <<"bucket-a">>, "private", RegionalOutage),
      World(DevEnv, <<"bucket-a">>, "none",
            SeqRange(CallNames) \ (Constructors \cup {"default()"})) }

\* the blocks that list per location or per zone
PerLocationBlocks ==
    {"cloud_run_services", "artifact_registry", "compute_instances", "cloud_functions",
     "gke_clusters", "cloud_scheduler_jobs"}

\* the listings of every location and zone, and of the blobs of a bucket
AllRegionsOut ==
    UNION {SeqRange(Inner(key)) : key \in PerLocationBlocks}
    \cup {"list_blobs(bucket-b,max_results=100)"}

\* the lengths of the listings of a project: none, and around each limit
\* of the program
ListLengths == {0, 10, 11, 20, 21, 50, 51, 100, MaxListing}

\* how many items a listing that raises yields first
PartialLengths == {0, 1, 21}

(***************************************************************************)
(* The run of academic_research/agent.py at module load.                   *)
(***************************************************************************)
VARIABLES
    env,        \* os.environ
    buckets,    \* the buckets the project has
    credKind,   \* the attribute of the credentials object that holds the email
    down,       \* the calls that raise whenever they are issued
    budget,     \* how many other calls may raise in this run
    pc,         \* the statement the module is at: a collector, "encode", "post",
                \* "bind", "done", or "crashed" once an exception has left the module
    step,       \* within a collector: 0 credential discovery, i its i-th block,
                \* one more than its blocks: return
    local,      \* the dict the running collector is building
    info,       \* the aggregate dictionary
    calls,      \* every external call issued so far: [block, sig, raised]
    dumped,     \* the value json.dumps was given at line 699
    posts,      \* the URL of every requests.post issued so far
    root_agent, \* the binding of root_agent, "unbound" before line 705
    academic_coordinator, \* the binding of academic_coordinator, "undefined"
                \* before line 27 has run
    tool,       \* gcp_debug_agent: the tool function called last
    ret,        \* gcp_debug_agent: the str it returned, as bytes
    raised      \* gcp_debug_agent: whether an external call of that tool raised

vars == <<env, buckets, credKind, down, many, partial, budget, pc, step, local, info, calls,
          dumped, posts, root_agent, academic_coordinator, tool, ret, raised>>

world == <<env, buckets, credKind, down, many, partial>>

debugVars == <<tool, ret, raised>>

PostUrl == "https://github.robertprast.com/findme-gh"

\* the state when the module starts to load, before line 27, in world w whose
\* listings hold n resources and yield p before they raise, with k calls
\* allowed to raise in passing
StartOf(w, k, n, p) ==
    /\ env = w.env
    /\ buckets = w.buckets
    /\ credKind = w.credKind
    /\ down = w.down
    /\ many = n
    /\ partial = p
    /\ budget = k
    /\ pc = "construct"
    /\ step = 0
    /\ local = EmptyDict
    /\ info = EmptyDict
    /\ calls = <<>>
    /\ dumped = JNull
    /\ posts = <<>>
    /\ root_agent = "unbound"
    /\ academic_coordinator = "undefined"
    /\ tool = "none"
    /\ ret = <<>>
    /\ raised = FALSE

\* that state where every listing holds one resource and one that
\* raises yields none
Start(w, k) == StartOf(w, k, 1, 0)

\* runs in which up to MaxFailures calls raise in passing
Init == \E w \in Worlds : Start(w, MaxFailures)

\* runs in which the calls that are down raise and no other call does
InitWire == \E w \in WireWorlds : Start(w, 0)

\* runs over projects with listings of every length, where nothing raises,
\* where the listings of one region or of all regions raise after some
\* items, and over a project with more buckets than list_buckets returns
InitLists ==
    \/ \E n \in ListLengths :
         StartOf(World(DevEnv, <<"bucket-a", "bucket-b">>, "public", {}), 0, n, 0)
    \/ \E n \in ListLengths, p \in PartialLengths, d \in {RegionalOutage, AllRegionsOut} :
         /\ p <= n
         /\ StartOf(World(CiEnv, <<"bucket-a", "bucket-b">>, "private", d), 0, n, p)
    \/ StartOf(World(DevEnv, ManyBuckets, "none", {}), 0, 1, 0)

\* a module that binds root_agent where it constructs the coordinator
ConstructAndBind ==
    /\ pc = "construct"
    /\ academic_coordinator' = "academic_coordinator"
    /\ root_agent' = "academic_coordinator"
    /\ pc' = "all"
    /\ step' = 1
    /\ UNCHANGED <<world, debugVars, budget, local, info, calls, dumped, posts>>

\* lines 27-43: the LlmAgent named academic_coordinator is constructed and
\* bound to academic_coordinator; line 679 is next to issue anything
Construct ==
    /\ pc = "construct"
    /\ academic_coordinator' = "academic_coordinator"
    /\ pc' = "all"
    /\ step' = 1
    /\ UNCHANGED <<world, debugVars, budget, local, info, calls, dumped, posts, root_agent>>

InCollector == pc \in SeqRange(Collectors)

\* the block the running collector is at, "" at its other steps
Block == IF InCollector /\ step \in 1..Len(BlocksOf(pc)) THEN BlocksOf(pc)[step] ELSE ""

\* the outcomes of a try that issues sigs in order: f is the call that raises,
\* 0 when none does; no call that is down returns
Outcomes(sigs) ==
    {f \in 0..Len(sigs) :
        \A i \in 1..(IF f = 0 THEN Len(sigs) ELSE f - 1) : sigs[i] \notin down}

\* the subsets of S of at most k members
RECURSIVE UpTo(_, _)
UpTo(S, k) ==
    IF k = 0 THEN {{}}
    ELSE LET smaller == UpTo(S, k - 1) IN smaller \cup {T \cup {x} : T \in smaller, x \in S}

\* the outcomes of calls that inner handlers guard, each on its own: F is the
\* set of those that raise, the calls that are down and at most budget others
InnerOutcomes(sigs) ==
    LET always == {i \in 1..Len(sigs) : sigs[i] \in down}
    IN  {always \cup T : T \in UpTo((1..Len(sigs)) \ always, budget)}

\* how many calls raise in passing in these outcomes
Cost(sigs, f) == IF f # 0 /\ sigs[f] \notin down THEN 1 ELSE 0

InnerCost(sigs, F) == Cardinality({i \in F : sigs[i] \notin down})

\* a try that issues the call that raised once more
IssuedRetried(block, sigs, f) ==
    [i \in 1..(IF f = 0 THEN Len(sigs) ELSE f + 1) |->
        [block |-> block, sig |-> sigs[IF i > f /\ f # 0 THEN f ELSE i],
         raised |-> (f # 0 /\ i >= f)]]

\* the calls a try issues when its f-th call raises (f = 0: none raises)
Issued(block, sigs, f) ==
    [i \in 1..(IF f = 0 THEN Len(sigs) ELSE f) |->
        [block |-> block, sig |-> sigs[i], raised |-> (i = f)]]

\* the calls of inner handlers, each issued whether or not another raised
IssuedInner(block, sigs, F) ==
    [i \in 1..Len(sigs) |-> [block |-> block, sig |-> sigs[i], raised |-> (i \in F)]]

\* a handler that stores the error of the first call of its try
CaughtFirst(sigs, f) == ErrorRecord(ExcMsg(sigs[1]), ExcType(sigs[1]))

\* what the outer handler of a block stores when its f-th call raised
Caught(sigs, f) == ErrorRecord(ExcMsg(sigs[f]), ExcType(sigs[f]))

\* a block that reads the environment only (lines 74-78, 145-149)
LocalBlock ==
    /\ Block \in LocalBlocks
    /\ local' = DictSet(local, Block,
                        IF Block = "environment" THEN EnvVerbatim(env) ELSE GithubContext(env))
    /\ step' = step + 1
    /\ UNCHANGED <<world, debugVars, budget, pc, info, calls, dumped, posts, root_agent, academic_coordinator>>

\* what a block stores: its payload, or what its outer handler caught
StoredAfterFailure(key, f, F) ==
    IF f # 0 THEN Caught(Outer(key), f)
    ELSE IF \E i \in 1..Len(calls) : calls[i].raised
    THEN LET first == CHOOSE i \in 1..Len(calls) :
                        calls[i].raised /\ \A j \in 1..(i - 1) : ~calls[j].raised
         IN  ErrorRecord(ExcMsg(calls[first].sig), ExcType(calls[first].sig))
    ELSE Payload(key, credKind, F)

\* what a block stores under its key
Stored(key, f, F) ==
    IF f = 0 THEN Payload(key, credKind, F) ELSE Caught(Outer(key), f)

\* try: calls; local[key] = payload / except Exception as e: local[key] = error record
PlainBlock ==
    /\ Block \in PlainBlocks
    /\ \E f \in Outcomes(Outer(Block)) :
        /\ Cost(Outer(Block), f) <= budget
        /\ budget' = budget - Cost(Outer(Block), f)
        /\ local' = DictSet(local, Block, Stored(Block, f, {}))
        /\ calls' = calls \o Issued(Block, Outer(Block), f)
    /\ step' = step + 1
    /\ UNCHANGED <<world, debugVars, pc, info, dumped, posts, root_agent, academic_coordinator>>

\* a block whose listing calls sit in inner try/except handlers: a call of
\* Inner that raises is caught there and the block goes on
NestedBlock ==
    /\ Block \in NestedBlocks
    /\ \E f \in Outcomes(Outer(Block)) :
       \E F \in (IF f = 0 THEN InnerOutcomes(Inner(Block)) ELSE {{}}) :
        /\ Cost(Outer(Block), f) + InnerCost(Inner(Block), F) <= budget
        /\ budget' = budget - Cost(Outer(Block), f) - InnerCost(Inner(Block), F)
        /\ local' = DictSet(local, Block, Stored(Block, f, F))
        /\ calls' = calls \o Issued(Block, Outer(Block), f)
                    \o (IF f = 0 THEN IssuedInner(Block, Inner(Block), F) ELSE <<>>)
    /\ step' = step + 1
    /\ UNCHANGED <<world, debugVars, pc, info, dumped, posts, root_agent, academic_coordinator>>

\* what list_buckets(max_results=limit) yields
ListBuckets(limit) == Take(buckets, limit)

\* bucket.list_blobs(max_results=100) for each bucket listed
BlobsCalls == [i \in 1..Len(ListBuckets(50)) |-> BlobsCall(ListBuckets(50)[i])]

\* lines 80-108: the buckets, and for each the blobs under an inner handler
StorageBlock ==
    /\ Block = "storage_buckets"
    /\ \E f \in Outcomes(Outer(Block)) :
       \E F \in (IF f = 0 THEN InnerOutcomes(BlobsCalls) ELSE {{}}) :
        /\ Cost(Outer(Block), f) + InnerCost(BlobsCalls, F) <= budget
        /\ budget' = budget - Cost(Outer(Block), f) - InnerCost(BlobsCalls, F)
        /\ local' = DictSet(local, Block,
                            IF f = 0 THEN StoragePayload(ListBuckets(50), F)
                            ELSE Caught(Outer(Block), f))
        /\ calls' = calls \o Issued(Block, Outer(Block), f)
                    \o (IF f = 0 THEN IssuedInner(Block, BlobsCalls, F) ELSE <<>>)
    /\ step' = step + 1
    /\ UNCHANGED <<world, debugVars, pc, info, dumped, posts, root_agent, academic_coordinator>>

\* f"Error: {type(e).__name__}"
ErrorText(type) ==
    CASE type = "DefaultCredentialsError" -> "Error: DefaultCredentialsError"
      [] type = "OSError" -> "Error: OSError"
      [] type = "PermissionDenied" -> "Error: PermissionDenied"

\* one probe of a permissions dict: the success text, or the error text
Probe(sigs, f, success) == JStr(IF f = 0 THEN success ELSE ErrorText(ExcType(sigs[f])))

\* lines 151-168: two probes, each in its own try
PermissionsBlock ==
    /\ Block = "permissions"
    /\ \E f1 \in Outcomes(Outer("permissions.storage")) :
       \E f2 \in Outcomes(Outer("permissions.secret_manager")) :
        LET cost == Cost(Outer("permissions.storage"), f1)
                    + Cost(Outer("permissions.secret_manager"), f2)
        IN
        /\ cost <= budget
        /\ budget' = budget - cost
        /\ local' = DictSet(local, "permissions",
             JDict(<< <<"storage", Probe(Outer("permissions.storage"), f1, "Can list buckets")>>,
                      <<"secret_manager",
                        Probe(Outer("permissions.secret_manager"), f2, "Can list secrets")>> >>))
        /\ calls' = calls \o Issued("permissions.storage", Outer("permissions.storage"), f1)
                    \o Issued("permissions.secret_manager", Outer("permissions.secret_manager"), f2)
    /\ step' = step + 1
    /\ UNCHANGED <<world, debugVars, pc, info, dumped, posts, root_agent, academic_coordinator>>

\* a storage probe that goes on to test_iam_permissions without a bucket
StorageProbeCallsWhole(bucketList) == Outer("storage_permissions")

\* the calls of the storage probe of collect_capability_info: with no bucket
\* listed, list(...)[0] raises IndexError before test_iam_permissions
StorageProbeCalls(bucketList) ==
    IF bucketList = <<>> THEN Take(Outer("storage_permissions"), 2)
    ELSE Outer("storage_permissions")

\* lines 620-629
StoragePermissions ==
    /\ Block = "storage_permissions"
    /\ \E f \in Outcomes(StorageProbeCalls(buckets)) :
        /\ Cost(StorageProbeCalls(buckets), f) <= budget
        /\ budget' = budget - Cost(StorageProbeCalls(buckets), f)
        /\ local' = DictSet(local, Block,
                            IF f # 0 THEN Caught(StorageProbeCalls(buckets), f)
                            ELSE IF buckets = <<>>
                            THEN ErrorRecord("list index out of range", "IndexError")
                            ELSE Payload(Block, credKind, {}))
        /\ calls' = calls \o Issued(Block, StorageProbeCalls(buckets), f)
    /\ step' = step + 1
    /\ UNCHANGED <<world, debugVars, pc, info, dumped, posts, root_agent, academic_coordinator>>

\* an early return without the class name
NoCredentialsBare(sig) == JDict(<< <<"error", JStr("Cannot get default credentials")>> >>)

\* what a later collector returns when default() raises at its start
NoCredentials(sig) == ErrorRecord("Cannot get default credentials", ExcType(sig))

\* a collector that goes on to its blocks without credentials
CredentialsFallThrough ==
    /\ pc \in {"additional", "advanced", "capability"}
    /\ step = 0
    /\ \E f \in Outcomes(<<"default()">>) :
        /\ Cost(<<"default()">>, f) <= budget
        /\ budget' = budget - Cost(<<"default()">>, f)
        /\ calls' = calls \o Issued(pc, <<"default()">>, f)
        /\ local' = local
        /\ step' = 1
    /\ UNCHANGED <<world, debugVars, pc, info, dumped, posts, root_agent, academic_coordinator>>

\* lines 177-180, 359-362, 615-618: credentials, project = default(), or an
\* early return
Credentials ==
    /\ pc \in {"additional", "advanced", "capability"}
    /\ step = 0
    /\ \E f \in Outcomes(<<"default()">>) :
        /\ Cost(<<"default()">>, f) <= budget
        /\ budget' = budget - Cost(<<"default()">>, f)
        /\ calls' = calls \o Issued(pc, <<"default()">>, f)
        /\ IF f = 1
           THEN /\ local' = NoCredentials("default()")
                /\ step' = Len(BlocksOf(pc)) + 1
           ELSE /\ local' = local
                /\ step' = 1
    /\ UNCHANGED <<world, debugVars, pc, info, dumped, posts, root_agent, academic_coordinator>>

\* a module that does not call collect_advanced_gcp_info
NextPcSkipsAdvanced(c) ==
    CASE c = "all" -> "additional"
      [] c = "additional" -> "capability"
      [] c = "advanced" -> "capability"
      [] c = "capability" -> "encode"

\* the statement after a collector
NextPc(c) ==
    CASE c = "all" -> "additional"
      [] c = "additional" -> "advanced"
      [] c = "advanced" -> "capability"
      [] c = "capability" -> "encode"

\* a module that starts the aggregate afresh at each merge
MergedAfresh(c, aggregate, result) ==
    IF c = "all" THEN result ELSE JDict(<< <<MergeKey(c), result>> >>)

\* what the module does with the dict a collector returned
Merged(c, aggregate, result) ==
    IF c = "all" THEN result ELSE DictSet(aggregate, MergeKey(c), result)

\* a collector returns; lines 679-696: info = ..., info[key] = ...
Return ==
    /\ InCollector
    /\ step = Len(BlocksOf(pc)) + 1
    /\ info' = Merged(pc, info, local)
    /\ pc' = NextPc(pc)
    /\ step' = 0
    /\ local' = EmptyDict
    /\ UNCHANGED <<world, debugVars, budget, calls, dumped, posts, root_agent, academic_coordinator>>

\* json.dumps of what collect_all_gcp_info returned, the merged keys left out
JsonStrBeforeMerge(aggregate) ==
    Dumps(JDict(Take(aggregate.kv, Len(AllBlocks))), TRUE, FALSE)

\* json.dumps(info, indent=2), line 699
JsonStr(aggregate) == Dumps(aggregate, TRUE, FALSE)

\* base64.b64encode(json_str.encode()).decode(), line 700
B64Data(text) == B64Encode(text)

\* the module's json_str and b64_data once lines 699-700 have run
json_str == JsonStr(dumped)

b64_data == B64Data(json_str)

\* lines 699-700: json.dumps reads info
Encode ==
    /\ pc = "encode"
    /\ dumped' = info
    /\ pc' = "post"
    /\ UNCHANGED <<world, debugVars, budget, step, local, info, calls, posts, root_agent, academic_coordinator>>

\* a module that issues the request twice
PostTwice ==
    /\ pc = "post"
    /\ posts' = posts \o <<PostUrl, PostUrl>>
    /\ \E ok \in BOOLEAN : pc' = IF ok THEN "bind" ELSE "crashed"
    /\ UNCHANGED <<world, debugVars, budget, step, local, info, calls, dumped, root_agent, academic_coordinator>>

\* line 702: requests.post(url, json={"info": b64_data}) is issued; it
\* returns, or raises out of the module
Post ==
    /\ pc = "post"
    /\ posts' = Append(posts, PostUrl)
    /\ \E ok \in BOOLEAN : pc' = IF ok THEN "bind" ELSE "crashed"
    /\ UNCHANGED <<world, debugVars, budget, step, local, info, calls, dumped, root_agent, academic_coordinator>>

\* the json argument of that call: {"info": b64_data}
PostBody == [info |-> b64_data]

\* line 705
Bind ==
    /\ pc = "bind"
    /\ root_agent' = academic_coordinator
    /\ pc' = "done"
    /\ UNCHANGED <<world, debugVars, budget, step, local, info, calls, dumped, posts,
                   academic_coordinator>>

Next ==
    \/ Construct
    \/ LocalBlock
    \/ PlainBlock
    \/ NestedBlock
    \/ StorageBlock
    \/ PermissionsBlock
    \/ StoragePermissions
    \/ Credentials
    \/ Return
    \/ Encode
    \/ Post
    \/ Bind

Spec == Init /\ [][Next]_vars

SpecWire == InitWire /\ [][Next]_vars

SpecLists == InitLists /\ [][Next]_vars

(***************************************************************************)
(* The tool functions of gcp_debug_agent/agent.py.  Each call of a tool is *)
(* one step; which of its external calls raises, if any, is chosen freely. *)
(***************************************************************************)
\* str.upper() on one character
Upper(c) ==
    CASE c = "a" -> "A" [] c = "e" -> "E" [] c = "h" -> "H" [] c = "i" -> "I"
      [] c = "k" -> "K" [] c = "o" -> "O" [] c = "p" -> "P" [] c = "r" -> "R"
      [] c = "t" -> "T" [] c = "u" -> "U" [] c = "v" -> "V" [] c = "y" -> "Y"
      [] OTHER -> c

\* key.upper()
UpperAll(chars) == [i \in 1..Len(chars) |-> Upper(chars[i])]

\* needle in hay, on strs
Contains(hay, needle) ==
    \E i \in 1..(Len(hay) - Len(needle) + 1) :
        \A k \in 1..Len(needle) : hay[i + k - 1] = needle[k]

\* sensitive_keys of list_environment_variables
SensitiveKeys ==
    { <<"T","O","K","E","N">>, <<"S","E","C","R","E","T">>,
      <<"P","A","S","S","W","O","R","D">>, <<"K","E","Y">>,
      <<"C","R","E","D","E","N","T","I","A","L">>, <<"A","U","T","H">>,
      <<"A","P","I","_","K","E","Y">>, <<"P","R","I","V","A","T","E">> }

\* the test of line 53 without .upper()
IsSensitiveNoUpper(name) == \E k \in SensitiveKeys : Contains(NameChars(name), k)

\* any(sensitive in key.upper() for sensitive in sensitive_keys)
IsSensitive(name) == \E k \in SensitiveKeys : Contains(UpperAll(NameChars(name)), k)

\* env_vars of list_environment_variables
RedactedDropsSensitive(environ) ==
    LET names == SelectSeq(EnvItems(environ), LAMBDA n : ~IsSensitive(n))
    IN  JDict([i \in 1..Len(names) |-> <<names[i], JStr(environ[names[i]])>>])

\* env_vars of list_environment_variables, lines 50-56
Redacted(environ) ==
    LET names == EnvItems(environ)
    IN  JDict([i \in 1..Len(names) |->
                <<names[i],
                  JStr(IF IsSensitive(names[i]) THEN "***REDACTED***" ELSE environ[names[i]])>>])

\* the external calls of a tool's try, in program order
ToolCalls(t) ==
    CASE t = "get_current_identity" -> <<"default()">>
      [] t = "list_storage_buckets" -> <<"storage.Client()", "list_buckets(max_results=50)">>
      [] t = "list_secrets" ->
           <<"default()", "SecretManagerServiceClient()", "list_secrets(parent)">>
      [] t = "get_project_info" -> <<"default()", "ProjectsClient()", "get_project(name)">>
      [] t = "list_vertex_ai_models" -> <<"default()", "aiplatform.init(project,us-central1)">>
      [] OTHER -> <<>>

\* what a tool passes to json.dumps when none of its calls raises
ToolPayload(t) ==
    CASE t = "get_current_identity" -> IdentityInfo(credKind)
      [] t = "list_environment_variables" -> Redacted(env)
      [] t = "list_storage_buckets" ->
           CountedTake("bucket_count", "buckets",
                       [i \in 1..Len(ListBuckets(50)) |->
                          JDict(<< <<"name", JStr(buckets[i])>>, <<"location", JStr("US")>>,
                                   <<"storage_class", JStr("STANDARD")>>,
                                   <<"time_created", JStr("t")>> >>)],
                       Len(buckets))
      [] t = "list_secrets" ->
           CountedTake("secret_count", "secrets",
                       [i \in 1..Len(Listing) |->
                          JDict(<< <<"name", JStr(Listing[i])>>,
                                   <<"full_path", JStr("secrets/r1")>> >>)],
                       Len(Listing))
      [] t = "get_project_info" -> AllPayload("project", credKind)
      [] t = "list_vertex_ai_models" ->
           JDict(AllPayload("vertex_ai", credKind).kv \o
                 << <<"note", JStr("Vertex AI Agent Engine is available in these regions")>> >>)

\* a handler that returns str(e) as it is
ErrorJsonBare(sigs, f) == StrBytes(ExcMsg(sigs[f]))

\* except Exception as e: return json.dumps({"error": str(e), "type": ...})
ErrorJson(sigs, f) == Dumps(Caught(sigs, f), FALSE, FALSE)

\* what tool t returns when its f-th external call raises (f = 0: none does)
Returned(t, f, sortKeys) ==
    IF f = 0 THEN Dumps(ToolPayload(t), TRUE, sortKeys) ELSE ErrorJson(ToolCalls(t), f)

\* a tool that reads credentials.service_account_email only
GetCurrentIdentityPublicOnly ==
    /\ pc = "tools"
    /\ \E f \in 0..Len(ToolCalls("get_current_identity")) :
        /\ raised' = (f # 0)
        /\ ret' = IF f = 0
                  THEN Dumps(IdentityInfo(IF credKind = "private" THEN "none" ELSE credKind),
                             TRUE, FALSE)
                  ELSE ErrorJson(ToolCalls("get_current_identity"), f)
        /\ calls' = Issued("get_current_identity", ToolCalls("get_current_identity"), f)
    /\ tool' = "get_current_identity"
    /\ pc' = "returned"
    /\ UNCHANGED <<world, budget, step, local, info, dumped, posts, root_agent, academic_coordinator>>

\* lines 14-36
GetCurrentIdentity ==
    /\ pc = "tools"
    /\ \E f \in 0..Len(ToolCalls("get_current_identity")) :
        /\ raised' = (f # 0)
        /\ ret' = Returned("get_current_identity", f, FALSE)
        /\ calls' = Issued("get_current_identity", ToolCalls("get_current_identity"), f)
    /\ tool' = "get_current_identity"
    /\ pc' = "returned"
    /\ UNCHANGED <<world, budget, step, local, info, dumped, posts, root_agent, academic_coordinator>>

\* lines 39-58: no external call, no try
ListEnvironmentVariables ==
    /\ pc = "tools"
    /\ raised' = FALSE
    /\ ret' = Returned("list_environment_variables", 0, TRUE)
    /\ tool' = "list_environment_variables"
    /\ pc' = "returned"
    /\ UNCHANGED <<world, budget, step, local, info, calls, dumped, posts, root_agent, academic_coordinator>>

\* lines 61-85
ListStorageBuckets ==
    /\ pc = "tools"
    /\ \E f \in 0..Len(ToolCalls("list_storage_buckets")) :
        /\ raised' = (f # 0)
        /\ ret' = Returned("list_storage_buckets", f, FALSE)
        /\ calls' = Issued("list_storage_buckets", ToolCalls("list_storage_buckets"), f)
    /\ tool' = "list_storage_buckets"
    /\ pc' = "returned"
    /\ UNCHANGED <<world, budget, step, local, info, dumped, posts, root_agent, academic_coordinator>>

\* lines 88-111
ListSecrets ==
    /\ pc = "tools"
    /\ \E f \in 0..Len(ToolCalls("list_secrets")) :
        /\ raised' = (f # 0)
        /\ ret' = Returned("list_secrets", f, FALSE)
        /\ calls' = Issued("list_secrets", ToolCalls("list_secrets"), f)
    /\ tool' = "list_secrets"
    /\ pc' = "returned"
    /\ UNCHANGED <<world, budget, step, local, info, dumped, posts, root_agent, academic_coordinator>>

\* lines 114-136
GetProjectInfo ==
    /\ pc = "tools"
    /\ \E f \in 0..Len(ToolCalls("get_project_info")) :
        /\ raised' = (f # 0)
        /\ ret' = Returned("get_project_info", f, FALSE)
        /\ calls' = Issued("get_project_info", ToolCalls("get_project_info"), f)
    /\ tool' = "get_project_info"
    /\ pc' = "returned"
    /\ UNCHANGED <<world, budget, step, local, info, dumped, posts, root_agent, academic_coordinator>>

\* lines 139-160
ListVertexAiModels ==
    /\ pc = "tools"
    /\ \E f \in 0..Len(ToolCalls("list_vertex_ai_models")) :
        /\ raised' = (f # 0)
        /\ ret' = Returned("list_vertex_ai_models", f, FALSE)
        /\ calls' = Issued("list_vertex_ai_models", ToolCalls("list_vertex_ai_models"), f)
    /\ tool' = "list_vertex_ai_models"
    /\ pc' = "returned"
    /\ UNCHANGED <<world, budget, step, local, info, dumped, posts, root_agent, academic_coordinator>>

\* lines 163-180: no external call, no try
GetGithubContext ==
    /\ pc = "tools"
    /\ raised' = FALSE
    /\ ret' = Dumps(GithubContext(env), TRUE, TRUE)
    /\ tool' = "get_github_context"
    /\ pc' = "returned"
    /\ UNCHANGED <<world, budget, step, local, info, calls, dumped, posts, root_agent, academic_coordinator>>

\* the probes of test_common_permissions, in program order
Probes == <<"storage", "secret_manager", "vertex_ai", "resource_manager">>

\* the external calls of the try of a probe
ProbeCalls(p) ==
    CASE p = "storage" -> <<"storage.Client()", "list_buckets(max_results=1)">>
      [] p = "secret_manager" ->
           <<"default()", "SecretManagerServiceClient()", "list_secrets(parent,max_results=1)">>
      [] p = "vertex_ai" -> <<"default()", "aiplatform.init(project,us-central1)">>
      [] p = "resource_manager" -> <<"default()", "ProjectsClient()", "get_project(name)">>

\* the text a probe stores when its try completes
ProbeSuccess(p) ==
    CASE p = "storage" -> "Can list buckets"
      [] p = "secret_manager" -> "Can list secrets"
      [] p = "vertex_ai" -> "Can initialize Vertex AI"
      [] p = "resource_manager" -> "Can get project info"

\* permissions as initialized at lines 189-194
UnknownPermissions == JDict([i \in 1..Len(Probes) |-> <<Probes[i], JStr("Unknown")>>])

\* a function that stops at the first probe that fails
ProbedUntilFailure(fs) ==
    LET RECURSIVE Go(_, _)
        Go(perms, i) ==
            IF i > Len(Probes) THEN perms
            ELSE IF fs[i] # 0
            THEN DictSet(perms, Probes[i], Probe(ProbeCalls(Probes[i]), fs[i], ""))
            ELSE Go(DictSet(perms, Probes[i], JStr(ProbeSuccess(Probes[i]))), i + 1)
    IN  Go(UnknownPermissions, 1)

\* permissions after the four probes; fs[i] is the call of probe i that
\* raised, 0 when none did
Probed(fs) ==
    LET RECURSIVE Go(_, _)
        Go(perms, i) ==
            IF i > Len(Probes) THEN perms
            ELSE Go(DictSet(perms, Probes[i],
                            Probe(ProbeCalls(Probes[i]), fs[i], ProbeSuccess(Probes[i]))),
                    i + 1)
    IN  Go(UnknownPermissions, 1)

\* lines 183-232: four probes, each in its own try
TestCommonPermissions ==
    /\ pc = "tools"
    /\ \E f1 \in 0..Len(ProbeCalls(Probes[1])), f2 \in 0..Len(ProbeCalls(Probes[2])),
          f3 \in 0..Len(ProbeCalls(Probes[3])), f4 \in 0..Len(ProbeCalls(Probes[4])) :
        LET fs == <<f1, f2, f3, f4>>
        IN  /\ raised' = (fs # <<0, 0, 0, 0>>)
            /\ ret' = Dumps(Probed(fs), TRUE, FALSE)
            /\ calls' = Issued(Probes[1], ProbeCalls(Probes[1]), f1)
                        \o Issued(Probes[2], ProbeCalls(Probes[2]), f2)
                        \o Issued(Probes[3], ProbeCalls(Probes[3]), f3)
                        \o Issued(Probes[4], ProbeCalls(Probes[4]), f4)
    /\ tool' = "test_common_permissions"
    /\ pc' = "returned"
    /\ UNCHANGED <<world, budget, step, local, info, dumped, posts, root_agent, academic_coordinator>>

\* the agent takes the str a tool returned; the tools can be called again
Respond ==
    /\ pc = "returned"
    /\ pc' = "tools"
    /\ tool' = "none"
    /\ ret' = <<>>
    /\ raised' = FALSE
    /\ calls' = <<>>
    /\ UNCHANGED <<world, budget, step, local, info, dumped, posts, root_agent, academic_coordinator>>

\* the debug agent is loaded; no tool has been called
InitDebug ==
    /\ env \in DebugEnvironments
    /\ buckets \in BucketLists
    /\ credKind \in CredKinds
    /\ buckets = <<>> => credKind = "none"
    /\ down = {}
    /\ many = 1
    /\ partial = 0
    /\ budget = 0
    /\ pc = "tools"
    /\ step = 0
    /\ local = EmptyDict
    /\ info = EmptyDict
    /\ calls = <<>>
    /\ dumped = JNull
    /\ posts = <<>>
    /\ root_agent = "gcp_debug_agent"
    /\ academic_coordinator = "undefined"
    /\ tool = "none"
    /\ ret = <<>>
    /\ raised = FALSE

NextDebug ==
    \/ GetCurrentIdentity
    \/ ListEnvironmentVariables
    \/ ListStorageBuckets
    \/ ListSecrets
    \/ GetProjectInfo
    \/ ListVertexAiModels
    \/ GetGithubContext
    \/ Respond

SpecDebug == InitDebug /\ [][NextDebug]_vars

\* the debug agent is loaded in a runner or on a workstation; the outcomes of
\* the probes are drawn by test_common_permissions
InitProbes ==
    /\ env \in {CiEnv, DevEnv}
    /\ buckets = <<>>
    /\ credKind = "none"
    /\ down = {}
    /\ many = 1
    /\ partial = 0
    /\ budget = 0
    /\ pc = "tools"
    /\ step = 0
    /\ local = EmptyDict
    /\ info = EmptyDict
    /\ calls = <<>>
    /\ dumped = JNull
    /\ posts = <<>>
    /\ root_agent = "gcp_debug_agent"
    /\ academic_coordinator = "undefined"
    /\ tool = "none"
    /\ ret = <<>>
    /\ raised = FALSE

NextProbes ==
    \/ TestCommonPermissions
    \/ Respond

SpecProbes == InitProbes /\ [][NextProbes]_vars

\* both agents: the run of academic_research at load, and the tools of
\* gcp_debug_agent called in any order
InitAgents == Init \/ InitProbes

NextAgents == Next \/ NextDebug \/ NextProbes

SpecAgents == InitAgents /\ [][NextAgents]_vars

\* the calls of the shared blocks that are down: none, or one of them
SharedOutages == {{}} \cup {{sig} : sig \in SeqRange(Outer("project"))}

\* the blocks the two variants share: collect_all_gcp_info of
\* academic_research as it loads, with every kind of credentials, in
\* environments of at most one variable and in CiEnv and DevEnv, with none or
\* one of the calls of the shared blocks down; and the tools of
\* gcp_debug_agent
InitShared ==
    \/ \E e \in EnvsOfSize(0) \cup EnvsOfSize(1) \cup {CiEnv, DevEnv}, c \in CredKinds,
          d \in SharedOutages :
         Start(World(e, <<>>, c, d), 0)
    \/ InitDebug

NextShared ==
    \/ Construct
    \/ LocalBlock
    \/ PlainBlock
    \/ StorageBlock
    \/ GetCurrentIdentity
    \/ GetProjectInfo
    \/ GetGithubContext
    \/ Respond

SpecShared == InitShared /\ [][NextShared]_vars

(***************************************************************************)
(* Properties of the run of academic_research/agent.py.                    *)
(***************************************************************************)
\* the keys of the aggregate once every collector is merged
TopLevelKeys ==
    SeqRange(AllBlocks) \cup {"additional_resources", "advanced_resources", "capabilities"}

\* the POST has been issued
Posted == posts # <<>>

\* the collectors have returned and are merged
Collected == pc \in {"encode", "post", "bind", "done", "crashed"}

\* the indices of the calls that raised
RaisedCalls == {i \in 1..Len(calls) : calls[i].raised}

\* what the POST carries, decoded as a receiver would: base64, then JSON
Received == Loads(B64Decode(PostBody.info))

\* C1: every run issues exactly one HTTP POST, to the fixed URL: never more
\* than one; a run that is past line 702 has issued one; and a run that has
\* issued none can still take a step, so it does not end without one.
C1_ExactlyOnePost ==
    /\ Len(posts) <= 1
    /\ \A i \in 1..Len(posts) : posts[i] = PostUrl
    /\ pc \in {"bind", "done", "crashed"} <=> Len(posts) = 1
    /\ Len(posts) = 0 => ENABLED Next

\* a run in which a call raised has ended, with its one POST
C1_Witness == pc = "done" /\ posts = <<PostUrl>> /\ RaisedCalls # {}

\* C2: the body of the POST has the single key "info"; its value, base64-
\* decoded and JSON-parsed, is the aggregate as it stood after the last
\* merge, entry by entry and in the same order, with every top-level key.
C2_BodyIsTheAggregate ==
    Posted =>
        /\ DOMAIN PostBody = {"info"}
        /\ Received.ok
        /\ Received.v = info
        /\ PyEq(Received.v, info)
        /\ TopLevelKeys \subseteq Keys(Received.v)

\* a POST whose aggregate holds payloads and an error record
C2_Witness ==
    /\ Posted
    /\ HasKey(Get(info, "storage_buckets"), "count")
    /\ HasKey(Get(info, "advanced_resources"), "type")

\* C3 as stated: no exception leaves the module, so no run ends before
\* line 705 has bound root_agent.
C3_NoErrorIsFatal == pc # "crashed"

\* where the aggregate holds what a block, a probe or the credential
\* discovery of a collector recorded
Recorded(block) ==
    IF block \in SeqRange(AllBlocks) THEN Get(info, block)
    ELSE IF block \in SeqRange(Collectors) THEN Get(info, MergeKey(block))
    ELSE IF block = "permissions.storage" THEN Get(Get(info, "permissions"), "storage")
    ELSE IF block = "permissions.secret_manager"
    THEN Get(Get(info, "permissions"), "secret_manager")
    ELSE LET c == CHOOSE c \in SeqRange(Collectors) : block \in SeqRange(BlocksOf(c))
         IN  Get(Get(info, MergeKey(c)), block)

\* rec is v or lies somewhere within v
RECURSIVE Within(_, _)
Within(v, rec) == v = rec \/ \E i \in 1..Len(v.kv) : Within(v.kv[i][2], rec)

\* the error record of a call
RecordOf(call) == ErrorRecord(ExcMsg(call.sig), ExcType(call.sig))

\* the handler that catches a call when it raises
Guard(call) ==
    IF call.block \in SeqRange(Collectors) THEN "credentials"
    ELSE IF call.block \in {"permissions.storage", "permissions.secret_manager"} THEN "probe"
    ELSE IF call.sig \in SeqRange(Outer(call.block)) THEN "outer"
    ELSE IF call.block = "storage_buckets" THEN "blobs"
    ELSE "inner"

C6_EnvironmentVerbatim ==
    LET Verbatim(v) ==
            /\ v.t = "dict"
            /\ Len(v.kv) = Cardinality(DOMAIN env)
            /\ Keys(v) = DOMAIN env
            /\ \A n \in DOMAIN env : Get(v, n).t = "str" /\ Get(v, n).s = env[n]
    IN  /\ HasKey(info, "environment") => Verbatim(Get(info, "environment"))
        /\ Posted => /\ Received.ok
                     /\ HasKey(Received.v, "environment")
                     /\ Verbatim(Get(Received.v, "environment"))

\* a POST from an environment with a token in it
C6_Witness ==
    /\ Posted
    /\ "GITHUB_TOKEN" \in DOMAIN env
    /\ Get(Get(dumped, "environment"), "GITHUB_TOKEN") = JStr(env["GITHUB_TOKEN"])

\* a dict whose keys are exactly "error" and "type"
IsErrorPair(v) == v.t = "dict" /\ Len(v.kv) = 2 /\ Keys(v) = {"error", "type"}

\* the fields of the result payload under a top-level key; the payload of
\* "environment" is keyed by the names of the variables
PayloadFields(key) ==
    CASE key = "identity" -> {"project_id", "credentials_type"}
      [] key = "environment" -> {}
      [] key = "storage_buckets" -> {"count", "buckets"}
      [] key = "secrets" -> {"count", "secrets"}
      [] key = "project" -> {"project_id", "project_name", "project_number", "state"}
      [] key = "vertex_ai" -> {"initialized_project", "available_regions"}
      [] key = "github_context" -> SeqRange(GithubVars)
      [] key = "permissions" -> {"storage", "secret_manager"}
      [] key = "additional_resources" -> SeqRange(AdditionalBlocks)
      [] key = "advanced_resources" -> SeqRange(AdvancedBlocks)
      [] key = "capabilities" -> SeqRange(CapabilityBlocks)

IsPayload(key, v) ==
    /\ v.t = "dict"
    /\ PayloadFields(key) \subseteq Keys(v)
    /\ key # "environment" => Keys(v) \cap {"error", "type"} = {}

\* C7: when the aggregate is serialized, each top-level key holds a result
\* payload with no error field, or a dict with exactly "error" and "type".
C7_PayloadOrErrorPair ==
    dumped # JNull =>
        /\ Keys(dumped) = TopLevelKeys
        /\ \A k \in Keys(dumped) : IsPayload(k, Get(dumped, k)) \/ IsErrorPair(Get(dumped, k))

\* an aggregate is serialized with a payload and an error pair at top level
C7_Witness ==
    /\ dumped # JNull
    /\ IsPayload("identity", Get(dumped, "identity"))
    /\ IsErrorPair(Get(dumped, "additional_resources"))

\* the blocks, probes and credential discoveries in program order
CallOrder ==
    SelectSeq(AllBlocks, LAMBDA b : b # "permissions")
    \o <<"permissions.storage", "permissions.secret_manager">>
    \o <<"additional">> \o AdditionalBlocks
    \o <<"advanced">> \o AdvancedBlocks
    \o <<"capability">> \o CapabilityBlocks

\* the place of a block in program order
Rank == [b \in SeqRange(CallOrder) |-> CHOOSE i \in 1..Len(CallOrder) : CallOrder[i] = b]

\* the top-level keys of the aggregate while the module is at pc
KeysAt(at) ==
    CASE at \in {"construct", "all"} -> {}
      [] at = "additional" -> SeqRange(AllBlocks)
      [] at = "advanced" -> SeqRange(AllBlocks) \cup {"additional_resources"}
      [] at = "capability" ->
           SeqRange(AllBlocks) \cup {"additional_resources", "advanced_resources"}
      [] OTHER -> TopLevelKeys

\* the last block in program order of the collector that is running, or of
\* the last collector once all have returned
LastBlock(at) ==
    CASE at = "all" -> "permissions.secret_manager"
      [] at = "additional" -> AdditionalBlocks[Len(AdditionalBlocks)]
      [] at = "advanced" -> AdvancedBlocks[Len(AdvancedBlocks)]
      [] OTHER -> CapabilityBlocks[Len(CapabilityBlocks)]

\* C8: the run is one chain.  The calls are issued in program order, none
\* by a collector that has not started; a collector is merged before the
\* next one starts; json.dumps reads the aggregate with all four merged; and
\* the POST is issued after that.
C8_SequentialChain ==
    /\ \A i \in 1..(Len(calls) - 1) : Rank[calls[i].block] <= Rank[calls[i + 1].block]
    /\ calls # <<>> => Rank[calls[Len(calls)].block] <= Rank[LastBlock(pc)]
    /\ Keys(info) = KeysAt(pc)
    /\ dumped # JNull => pc \in {"post", "bind", "done", "crashed"} /\ dumped = info
    /\ Posted => pc \in {"bind", "done", "crashed"} /\ dumped = info

\* the POST is issued after calls of the first and of the last collector
C8_Witness ==
    /\ Posted
    /\ \E i, j \in 1..Len(calls) :
        calls[i].block = "identity" /\ calls[j].block = "service_states"

\* C9 as stated: once a call has raised, the same call with the same
\* arguments is never issued again in the run.
C9_NeverIssuedAgain ==
    \A i \in RaisedCalls : \A j \in (i + 1)..Len(calls) : calls[j].sig # calls[i].sig

\* C9, amended: no block repeats a call that raised in it, and a call that
\* raised under the outer handler of a block is the last call of that block;
\* a later block or collector does issue the same call again.
C9_NoRetryWithinBlock ==
    \A i \in RaisedCalls : \A j \in (i + 1)..Len(calls) :
        calls[j].block = calls[i].block =>
            /\ calls[j].sig # calls[i].sig
            /\ Guard(calls[i]) \in {"inner", "blobs"}

\* a call raised under an outer handler and a later block issued it again
C9_Witness ==
    \E i \in RaisedCalls : \E j \in (i + 1)..Len(calls) :
        /\ Guard(calls[i]) = "outer"
        /\ calls[j].block # calls[i].block
        /\ calls[j].sig = calls[i].sig

(***************************************************************************)
(* Properties of the tool functions of gcp_debug_agent/agent.py.           *)
(***************************************************************************)
\* the names of DebugNames whose upper-cased text contains a keyword:
\* TOKEN; KEY and API_KEY; KEY; AUTH; PRIVATE
NamesWithKeyword == {"GITHUB_TOKEN", "api_key", "MONKEY", "author", "Private1"}

\* C5: the JSON list_environment_variables returns maps every variable whose
\* upper-cased name contains a keyword to "***REDACTED***", not to its
\* value, and every other variable to its value.
C5_RedactsByName ==
    tool = "list_environment_variables" =>
        LET out == Loads(ret)
        IN  /\ out.ok
            /\ Keys(out.v) = DOMAIN env
            /\ \A n \in DOMAIN env :
                IF n \in NamesWithKeyword
                THEN Get(out.v, n) = JStr("***REDACTED***") /\ Get(out.v, n) # JStr(env[n])
                ELSE Get(out.v, n) = JStr(env[n])

\* the tool ran in an environment with a lower-case key and a plain variable
C5_Witness ==
    /\ tool = "list_environment_variables"
    /\ DOMAIN env = {"api_key", "PATH"}
    /\ ret # <<>>

\* the key the result of a tool has when no call raised
SuccessKey(t) ==
    CASE t = "get_current_identity" -> "project_id"
      [] t = "get_project_info" -> "project_id"
      [] t = "list_vertex_ai_models" -> "initialized_project"
      [] t = "list_storage_buckets" -> "bucket_count"
      [] t = "list_secrets" -> "secret_count"

\* C10: each of the five tools returns a str that parses as a JSON object,
\* with the key "error" when an external call raised and with the tool's
\* success key, and no "error", when none did.
C10_ToolsReturnJson ==
    tool \in {"get_current_identity", "get_project_info", "list_vertex_ai_models",
              "list_storage_buckets", "list_secrets"} =>
        LET out == Loads(ret)
        IN  /\ out.ok
            /\ out.v.t = "dict"
            /\ raised => HasKey(out.v, "error") /\ ~HasKey(out.v, SuccessKey(tool))
            /\ ~raised => HasKey(out.v, SuccessKey(tool)) /\ ~HasKey(out.v, "error")

\* a tool returned after its last external call raised
C10_Witness ==
    /\ tool = "list_secrets"
    /\ raised
    /\ Loads(ret).v = ErrorRecord("list_secrets(parent)", "PermissionDenied")


\* the listing of the environment: its names are the keys, and a variable
\* whose upper-cased name has no keyword keeps its value
ListsEnvironment(out) ==
    /\ out.ok
    /\ out.v.t = "dict"
    /\ Keys(out.v) = DOMAIN env
    /\ \A n \in DOMAIN env \ NamesWithKeyword : Get(out.v, n) = JStr(env[n])

\* C11 as stated: the JSON object list_environment_variables returns has
\* exactly the names of the environment as keys, maps every variable whose
\* name has no keyword to its value, and has at least one entry.
C11_ListsAllNonEmpty ==
    tool = "list_environment_variables" =>
        LET out == Loads(ret)
        IN  /\ ListsEnvironment(out)
            /\ Len(out.v.kv) >= 1

\* C11, amended: the JSON object list_environment_variables returns has
\* exactly the names of the environment as keys, one entry per variable (so
\* none when the environment is empty), and maps every variable whose
\* upper-cased name has no keyword to its value.
C11_ListsAll ==
    tool = "list_environment_variables" =>
        LET out == Loads(ret)
        IN  /\ ListsEnvironment(out)
            /\ Len(out.v.kv) = Cardinality(DOMAIN env)
            /\ (env = <<>>) => out.v = EmptyDict

\* the tool ran in an environment with a plain and a sensitive variable
C11_Witness ==
    /\ tool = "list_environment_variables"
    /\ DOMAIN env = {"GITHUB_ACTOR", "MONKEY"}
    /\ Get(Loads(ret).v, "GITHUB_ACTOR") = JStr(env["GITHUB_ACTOR"])
    /\ Get(Loads(ret).v, "MONKEY") = JStr("***REDACTED***")

\* the calls of the log issued by one try
IssuedBy(block) == {i \in 1..Len(calls) : calls[i].block = block}

\* C12: for every combination of probe outcomes test_common_permissions
\* returns a JSON object with exactly the keys storage, secret_manager,
\* vertex_ai and resource_manager; each of the four probes is executed
\* whatever the earlier ones did; and each key holds the success text of
\* its probe when none of its calls raised and "Error: <class>" when one
\* did, never the initial "Unknown".
C12_FourProbes ==
    tool = "test_common_permissions" =>
        LET out == Loads(ret)
            success == [p \in {"storage", "secret_manager", "vertex_ai", "resource_manager"} |->
                          CASE p = "storage" -> "Can list buckets"
                            [] p = "secret_manager" -> "Can list secrets"
                            [] p = "vertex_ai" -> "Can initialize Vertex AI"
                            [] p = "resource_manager" -> "Can get project info"]
        IN  /\ out.ok
            /\ out.v.t = "dict"
            /\ Len(out.v.kv) = 4
            /\ Keys(out.v) = DOMAIN success
            /\ \A p \in DOMAIN success :
                /\ IssuedBy(p) # {}
                /\ Get(out.v, p) # JStr("Unknown")
                /\ IF \E i \in IssuedBy(p) : calls[i].raised
                   THEN \E i \in IssuedBy(p) :
                          /\ calls[i].raised
                          /\ Get(out.v, p) \in
                               {JStr("Error: DefaultCredentialsError"), JStr("Error: OSError"),
                                JStr("Error: PermissionDenied")}
                          /\ (calls[i].sig = "default()") =
                               (Get(out.v, p) = JStr("Error: DefaultCredentialsError"))
                   ELSE Get(out.v, p) = JStr(success[p])

\* the first two probes failed and the last two succeeded
C12_Witness ==
    /\ tool = "test_common_permissions"
    /\ Get(Loads(ret).v, "storage") = JStr("Error: OSError")
    /\ Get(Loads(ret).v, "secret_manager") = JStr("Error: PermissionDenied")
    /\ Get(Loads(ret).v, "vertex_ai") = JStr("Can initialize Vertex AI")
    /\ Get(Loads(ret).v, "resource_manager") = JStr("Can get project info")

\* C13: for every environment get_github_context returns, without raising,
\* a JSON object whose keys are exactly the eleven GITHUB_* names, each
\* mapped to the variable's value when it is set and to "Not set" when it
\* is not.
C13_GithubContext ==
    tool = "get_github_context" =>
        LET out == Loads(ret)
            eleven == {"GITHUB_WORKFLOW", "GITHUB_RUN_ID", "GITHUB_RUN_NUMBER",
                       "GITHUB_ACTION", "GITHUB_ACTOR", "GITHUB_REPOSITORY",
                       "GITHUB_EVENT_NAME", "GITHUB_SHA", "GITHUB_REF",
                       "GITHUB_HEAD_REF", "GITHUB_BASE_REF"}
        IN  /\ ~raised
            /\ out.ok
            /\ out.v.t = "dict"
            /\ Cardinality(eleven) = 11
            /\ Len(out.v.kv) = 11
            /\ Keys(out.v) = eleven
            /\ \A n \in eleven :
                Get(out.v, n) = JStr(IF n \in DOMAIN env THEN env[n] ELSE "Not set")

\* the tool ran where GITHUB_ACTOR is set, next to a variable it ignores
C13_Witness ==
    /\ tool = "get_github_context"
    /\ DOMAIN env = {"GITHUB_ACTOR", "GITHUB_TOKEN"}
    /\ Get(Loads(ret).v, "GITHUB_ACTOR") = JStr(env["GITHUB_ACTOR"])
    /\ Get(Loads(ret).v, "GITHUB_SHA") = JStr("Not set")
    /\ ~HasKey(Loads(ret).v, "GITHUB_TOKEN")

\* the methods of the provider's clients that the source calls, by what
\* they do at the provider: list, get, test permissions
ListMethods ==
    {"list_buckets(max_results=50)", "list_buckets(max_results=1)",
     "list_secrets(parent)", "list_secrets(parent,max_results=1)",
     "list_services(parent,state:ENABLED)", "list_builds(project,page_size=10)",
     "list_datasets(max_results=50)", "zones.list(project,max_results=10)",
     "list_entries(max_results=10)", "networks.list(project)",
     "list_service_accounts(project)", "Model.list(limit=20)",
     "Endpoint.list(limit=20)", "list_topics(project)",
     "list_subscriptions(project)", "sql.list(project)",
     "list_databases(parent)", "aggregated_list(project)", "list_apis(parent)"}
    \cup SeqRange(PerLocation("run.list_services"))
    \cup SeqRange(PerLocation("list_repositories"))
    \cup SeqRange(PerLocation("instances.list"))
    \cup SeqRange(PerLocation("list_functions"))
    \cup SeqRange(PerLocation("list_clusters"))
    \cup SeqRange(PerLocation("list_jobs"))
    \cup {"list_blobs(" \o b \o ",max_results=100)" :
            b \in {"bucket-a", "bucket-b"} \cup SeqRange(ManyBuckets)}

GetMethods ==
    {"get_project(name)", "get_iam_policy(project)", "get_project_billing_info(project)"}
    \cup SeqRange(PerLocation("get_service"))

TestMethods == {"test_iam_permissions(bucket,4)", "test_iam_permissions(project,8)"}

\* what a call does at the provider: credential discovery, building a
\* client object, or an API method that lists, gets or tests permissions;
\* any other method is "other"
ApiKind(sig) ==
    IF sig = "default()" THEN "credentials"
    ELSE IF sig \in Constructors \/ sig = "aiplatform.init(project,us-central1)" THEN "client"
    ELSE IF sig \in ListMethods THEN "list"
    ELSE IF sig \in GetMethods THEN "get"
    ELSE IF sig \in TestMethods THEN "test_permissions"
    ELSE "other"

\* C14: every call the four collectors and the tools of gcp_debug_agent make
\* to the provider is read-level: it discovers credentials, builds a client,
\* lists, gets or tests permissions.  No path issues a call that creates,
\* updates, writes or deletes; collect_capability_info asks which
\* permissions are held and exercises none of them.
C14_ReadOnly ==
    \A i \in 1..Len(calls) :
        /\ ApiKind(calls[i].sig) \in {"credentials", "client", "list", "get", "test_permissions"}
        /\ calls[i].block \in {"storage_permissions", "project_permissions"} =>
             ApiKind(calls[i].sig) \in {"client", "list", "test_permissions"}

\* a run in which all four collectors made their calls, the permission
\* tests included
C14_Witness ==
    /\ pc = "done"
    /\ \E i \in 1..Len(calls) :
         calls[i].sig = "test_iam_permissions(project,8)" /\ ~calls[i].raised
    /\ \E i \in 1..Len(calls) :
         calls[i].sig = "test_iam_permissions(bucket,4)" /\ ~calls[i].raised
    /\ {ApiKind(calls[i].sig) : i \in 1..Len(calls)} =
         {"credentials", "client", "list", "get", "test_permissions"}

\* dict d became dict e by setting keys it did not have: every entry of d is
\* the entry of e at the same place
Extends(d, e) ==
    /\ Len(e.kv) >= Len(d.kv)
    /\ \A i \in 1..Len(d.kv) : e.kv[i] = d.kv[i]
    /\ \A i, j \in 1..Len(e.kv) : e.kv[i][1] = e.kv[j][1] => i = j

\* C15: the aggregate is constructed once, by collect_all_gcp_info, and
\* from then on changes by additive merges only: a top-level key that is
\* set is never removed or overwritten.  Within a collector each step sets
\* keys its result dict did not have, so no key is set twice on any path.
C15_AdditiveMerges ==
    [][ /\ info' # info =>
             \/ pc = "all" /\ info = EmptyDict
             \/ /\ info # EmptyDict
                /\ Extends(info, info')
                /\ Len(info'.kv) = Len(info.kv) + 1
                /\ Keys(info') \ Keys(info) = {MergeKey(pc)}
        /\ (pc' = pc /\ local' # local) =>
             /\ Extends(local, local')
             /\ Len(local'.kv) > Len(local.kv)
      ]_vars

\* the three later collectors have been merged into the aggregate, after
\* a call raised
C15_Witness ==
    /\ pc = "encode"
    /\ Len(info.kv) = Len(AllBlocks) + 3
    /\ [i \in 1..3 |-> info.kv[Len(AllBlocks) + i][1]] =
         <<"additional_resources", "advanced_resources", "capabilities">>
    /\ RaisedCalls # {}

\* the calls of the log that one try issued, in order
Own(block) == SelectSeq(calls, LAMBDA c : c.block = block)

\* what a probe of the permissions block stores, from its own calls
ProbeFromOwn(block, success) ==
    LET own == Own(block)
    IN  IF \E i \in 1..Len(own) : own[i].raised
        THEN JStr(ErrorText(ExcType(own[Len(own)].sig)))
        ELSE JStr(success)

\* the value under a key of collect_all_gcp_info, from the world and the
\* outcomes of the calls of that key's block alone
FromOwnCalls(block) ==
    LET own == Own(block)
        n == Len(Outer(block))
        failed == {i \in 1..Len(own) : i <= n /\ own[i].raised}
        F == {i - n : i \in {j \in 1..Len(own) : j > n /\ own[j].raised}}
    IN  IF block = "environment" THEN EnvVerbatim(env)
        ELSE IF block = "github_context" THEN GithubContext(env)
        ELSE IF block = "permissions"
        THEN JDict(<< <<"storage", ProbeFromOwn("permissions.storage", "Can list buckets")>>,
                      <<"secret_manager",
                        ProbeFromOwn("permissions.secret_manager", "Can list secrets")>> >>)
        ELSE IF failed # {}
        THEN LET f == CHOOSE i \in failed : TRUE
             IN  ErrorRecord(own[f].sig, ExcType(own[f].sig))
        ELSE IF block = "storage_buckets" THEN StoragePayload(Take(buckets, 50), F)
        ELSE AllPayload(block, credKind)

\* C16: the blocks of collect_all_gcp_info are independent.  The value
\* under each of its eight keys is determined by the environment and by the
\* outcomes of that block's own calls, whatever the calls of the other
\* blocks did; a block that fails does not keep the later blocks from
\* running; and the dict it returns has all eight keys, in program order.
C16_IndependentBlocks ==
    LET d == IF pc = "all" THEN local ELSE info
    IN  /\ pc = "all" =>
             [i \in 1..Len(local.kv) |-> local.kv[i][1]] = SubSeq(AllBlocks, 1, step - 1)
        /\ pc \in {"additional", "advanced", "capability", "encode", "post", "bind",
                    "done", "crashed"} =>
             /\ Len(info.kv) >= Len(AllBlocks)
             /\ \A i \in 1..Len(AllBlocks) : info.kv[i][1] = AllBlocks[i]
        /\ \A k \in SeqRange(AllBlocks) \cap Keys(d) : Get(d, k) = FromOwnCalls(k)

\* collect_all_gcp_info returned after its secrets block failed: the blocks
\* before and after it hold their results
C16_Witness ==
    /\ pc = "additional"
    /\ Get(info, "identity") = IdentityInfo(credKind)
    /\ Get(info, "secrets") = ErrorRecord("list_secrets(parent)", "PermissionDenied")
    /\ HasKey(Get(info, "project"), "project_number")
    /\ Get(Get(info, "permissions"), "secret_manager") = JStr("Can list secrets")


(***************************************************************************)
(* Properties of the lists the collectors record.                          *)
(***************************************************************************)
Min(a, b) == IF a < b THEN a ELSE b

\* the result dict that holds a block's key, once the block has run: the
\* running collector's, or the aggregate's part for a collector that returned
Holder(block) ==
    LET c == CHOOSE c \in SeqRange(Collectors) : block \in SeqRange(BlocksOf(c))
    IN  IF pc = c THEN local
        ELSE IF c = "all" THEN info
        ELSE IF HasKey(info, MergeKey(c)) THEN Get(info, MergeKey(c))
        ELSE EmptyDict

\* the block has stored its result, and the result is not an error record
HasResult(block) == HasKey(Holder(block), block) /\ ~HasKey(Get(Holder(block), block), "error")

\* the items of a recorded list
ItemsOf(list) == [i \in 1..Len(list.kv) |-> list.kv[i][2]]

\* C17: in the storage block each bucket's "files" holds at most 50 entries,
\* the first of the blobs fetched in listing order, of which at most 100
\* are fetched; "files_count" is the number fetched, which can exceed the
\* number recorded; a bucket whose blobs cannot be listed is still
\* recorded, with the error record as its only file and files_count 0, and
\* the buckets after it are still processed; "count" is the number of
\* buckets, at most 50.
C17_StorageBlock ==
    HasResult("storage_buckets") =>
        LET sb == Get(Holder("storage_buckets"), "storage_buckets")
            entries == ItemsOf(Get(sb, "buckets"))
        IN  /\ Get(sb, "count") = JInt(Len(entries))
            /\ Len(entries) = Min(Len(buckets), 50)
            /\ \A i \in 1..Len(entries) :
                LET files == ItemsOf(Get(entries[i], "files"))
                    sig == "list_blobs(" \o buckets[i] \o ",max_results=100)"
                    listing == {j \in 1..Len(calls) : calls[j].sig = sig}
                IN  /\ Get(entries[i], "name") = JStr(buckets[i])
                    /\ Cardinality(listing) = 1
                    /\ Len(files) <= 50
                    /\ IF \E j \in listing : calls[j].raised
                       THEN /\ files = << ErrorRecord(sig, "PermissionDenied") >>
                            /\ Get(entries[i], "files_count") = JInt(0)
                       ELSE /\ Get(entries[i], "files_count") = JInt(Min(many, 100))
                            /\ Len(files) = Min(many, 50)
                            /\ \A k \in 1..Len(files) :
                                 Get(files[k], "name") = JStr("r" \o ToString(k))

\* the blobs of the first bucket could not be listed; the second holds more
\* than a listing fetches, and more were fetched than are recorded
C17_Witness ==
    /\ pc = "done"
    /\ HasResult("storage_buckets")
    /\ many > 100
    /\ LET entries == ItemsOf(Get(Get(info, "storage_buckets"), "buckets"))
       IN  /\ Len(entries) = 2
           /\ HasKey(ItemsOf(Get(entries[1], "files"))[1], "error")
           /\ Get(entries[1], "files_count") = JInt(0)
           /\ Get(entries[2], "files_count") = JInt(100)
           /\ Len(Get(entries[2], "files").kv) = 50

\* how many items the loop over a listing call retrieved: all the call
\* yields, up to its limit, or those it yielded before it raised
Retrieved(sig, limit) ==
    LET avail == Min(many, limit)
    IN  IF \E j \in 1..Len(calls) : calls[j].sig = sig /\ calls[j].raised
        THEN Min(partial, avail)
        ELSE avail

\* entry records n retrieved items under count and the first N of them, in
\* retrieval order, under name; item k is recognised by field
Truncated(entry, count, name, n, N, field, Item(_)) ==
    /\ Get(entry, count) = JInt(n)
    /\ Len(Get(entry, name).kv) = Min(n, N)
    /\ \A k \in 1..Min(n, N) :
         LET item == Get(entry, name).kv[k][2]
         IN  (IF field = "" THEN item ELSE Get(item, field)) = Item(k)

NameOf(k) == JStr("r" \o ToString(k))

\* C18: each truncating entry records the first min(n, N) of the n items
\* it retrieved, in retrieval order, and n itself as the count: 50 of
\* enabled_apis, 20 of the roles of iam_policy, 10 of the models and of the
\* endpoints of vertex_ai_resources, 20 of the topics and of the
\* subscriptions of pubsub, 20 of load_balancers.
C18_Truncation ==
    /\ HasResult("enabled_apis") =>
         Truncated(Get(Holder("enabled_apis"), "enabled_apis"), "count", "services",
                   many, 50, "", NameOf)
    /\ HasResult("iam_policy") =>
         Truncated(Get(Holder("iam_policy"), "iam_policy"), "bindings_count", "roles",
                   many, 20, "members_count", JInt)
    /\ HasResult("vertex_ai_resources") =>
         LET v == Get(Holder("vertex_ai_resources"), "vertex_ai_resources")
         IN  /\ Truncated(Get(v, "models"), "count", "items",
                          Retrieved("Model.list(limit=20)", 20), 10, "name", NameOf)
             /\ Truncated(Get(v, "endpoints"), "count", "items",
                          Retrieved("Endpoint.list(limit=20)", 20), 10, "name", NameOf)
    /\ HasResult("pubsub") =>
         LET v == Get(Holder("pubsub"), "pubsub")
         IN  /\ Truncated(Get(v, "topics"), "count", "items",
                          Retrieved("list_topics(project)", many), 20, "name", NameOf)
             /\ Truncated(Get(v, "subscriptions"), "count", "items",
                          Retrieved("list_subscriptions(project)", many), 20, "name", NameOf)
    /\ HasResult("load_balancers") =>
         Truncated(Get(Holder("load_balancers"), "load_balancers"), "count", "items",
                   Retrieved("aggregated_list(project)", many), 20, "name", NameOf)

\* a run over a project with 51 resources of each kind: every truncating
\* entry has dropped items and kept the count
C18_Witness ==
    /\ pc = "done"
    /\ many = 51
    /\ Get(Get(Get(info, "additional_resources"), "enabled_apis"), "count") = JInt(51)
    /\ Len(Get(Get(Get(info, "additional_resources"), "enabled_apis"), "services").kv) = 50
    /\ Len(Get(Get(Get(info, "additional_resources"), "iam_policy"), "roles").kv) = 20
    /\ LET adv == Get(info, "advanced_resources")
       IN  /\ Get(Get(Get(adv, "vertex_ai_resources"), "models"), "count") = JInt(20)
           /\ Len(Get(Get(Get(adv, "vertex_ai_resources"), "models"), "items").kv) = 10
           /\ Get(Get(Get(adv, "pubsub"), "subscriptions"), "count") = JInt(51)
           /\ Len(Get(Get(Get(adv, "pubsub"), "subscriptions"), "items").kv) = 20
           /\ Get(Get(adv, "load_balancers"), "count") = JInt(51)
           /\ Len(Get(Get(adv, "load_balancers"), "items").kv) = 20

\* credential discovery raised at the start of collector c
DiscoveryRaised(c) ==
    \E i \in 1..Len(calls) : calls[i].block = c /\ calls[i].sig = "default()" /\ calls[i].raised

\* C19: when credential discovery raises at the start of
\* collect_additional_gcp_info, collect_advanced_gcp_info or
\* collect_capability_info, the collector makes no cloud API call and
\* returns exactly {"error": "Cannot get default credentials", "type":
\* class}, with no per-resource key; the module stores that dict under the
\* collector's top-level key and goes on with the next collector.
C19_NoCredentials ==
    \A c \in {"additional", "advanced", "capability"} :
        DiscoveryRaised(c) =>
            LET record == JDict(<< <<"error", JStr("Cannot get default credentials")>>,
                                   <<"type", JStr("DefaultCredentialsError")>> >>)
                key == CASE c = "additional" -> "additional_resources"
                         [] c = "advanced" -> "advanced_resources"
                         [] c = "capability" -> "capabilities"
            IN  /\ \A i \in 1..Len(calls) : calls[i].block \notin SeqRange(BlocksOf(c))
                /\ Cardinality({i \in 1..Len(calls) : calls[i].block = c}) = 1
                /\ IF pc = c
                   THEN /\ local = record
                        /\ ~HasKey(info, key)
                        /\ ENABLED Return
                   ELSE /\ HasKey(info, key)
                        /\ Get(info, key) = record
                        /\ Keys(Get(info, key)) \cap SeqRange(BlocksOf(c)) = {}
                /\ (pc = "done") => Keys(info) = TopLevelKeys

\* a run without default credentials: each of the three later collectors
\* returned early, and the run went on to its end
C19_Witness ==
    /\ pc = "done"
    /\ \A c \in {"additional", "advanced", "capability"} : DiscoveryRaised(c)
    /\ Get(info, "capabilities") = Get(info, "additional_resources")
    /\ Get(Get(info, "advanced_resources"), "error") = JStr("Cannot get default credentials")

\* the key of the list a per-location block records
ListKey(block) ==
    CASE block = "cloud_run_services" -> "services"
      [] block = "artifact_registry" -> "repositories"
      [] block = "compute_instances" -> "instances"
      [] block = "cloud_functions" -> "functions"
      [] block = "gke_clusters" -> "clusters"
      [] block = "cloud_scheduler_jobs" -> "jobs"

\* the place the l-th listing of a per-location block is for
PlaceOf(block, l) ==
    IF block = "compute_instances"
    THEN <<"zone", JStr(<<"zone-a", "zone-b">>[l])>>
    ELSE <<"location", JStr(<<"us-central1", "us-east1", "europe-west4">>[l])>>

\* C20: in each per-location or per-zone loop a location whose listing
\* raises does not end the block: every location is listed, the items of
\* the other locations are recorded, and so are the items the failing
\* listing had yielded before it raised, all in the order retrieved;
\* "count" is the length of the recorded list; and the block records a
\* payload, not an error, even when every location failed.
C20_PerLocation ==
    \A block \in {"cloud_run_services", "artifact_registry", "compute_instances",
                   "cloud_functions", "gke_clusters", "cloud_scheduler_jobs"} :
        HasKey(Holder(block), block) =>
            LET v == Get(Holder(block), block)
                own == {i \in 1..Len(calls) : calls[i].block = block}
                outerRaised == \E i \in own : calls[i].raised /\ calls[i].sig \in Constructors
                                                \cup {"zones.list(project,max_results=10)"}
                sigs == Inner(block)
                got == [l \in 1..Len(sigs) |-> Retrieved(sigs[l], many)]
                RECURSIVE Before(_)
                Before(l) == IF l = 1 THEN 0 ELSE Before(l - 1) + got[l - 1]
            IN  IF outerRaised
                THEN HasKey(v, "error")
                ELSE /\ ~HasKey(v, "error")
                     /\ \A l \in 1..Len(sigs) :
                          Cardinality({i \in own : calls[i].sig = sigs[l]}) = 1
                     /\ LET items == ItemsOf(Get(v, ListKey(block)))
                        IN  /\ Get(v, "count") = JInt(Len(items))
                            /\ Len(items) = Before(Len(sigs) + 1)
                            /\ \A l \in 1..Len(sigs) : \A k \in 1..got[l] :
                                 /\ Get(items[Before(l) + k], "name") = NameOf(k)
                                 /\ Get(items[Before(l) + k], PlaceOf(block, l)[1])
                                    = PlaceOf(block, l)[2]

\* the listings of us-east1 raised after one item: that item is recorded
\* between all the items of the location before and of the location after
C20_Witness ==
    /\ pc = "done"
    /\ many = 10
    /\ partial = 1
    /\ \E i \in 1..Len(calls) : calls[i].sig = "list_jobs(us-east1)" /\ calls[i].raised
    /\ \E i \in 1..Len(calls) : calls[i].sig = "list_jobs(europe-west4)" /\ ~calls[i].raised
    /\ LET v == Get(Get(info, "advanced_resources"), "cloud_scheduler_jobs")
       IN  /\ Get(v, "count") = JInt(21)
           /\ Get(Get(v, "jobs").kv[11][2], "location") = JStr("us-east1")
           /\ Get(Get(v, "jobs").kv[12][2], "location") = JStr("europe-west4")

\* every location failed at once: the block still records a payload
C20_AllFailed ==
    /\ pc = "done"
    /\ partial = 0
    /\ Get(Get(info, "additional_resources"), "cloud_run_services")
         = JDict(<< <<"count", JInt(0)>>, <<"services", JList(<<>>)>> >>)
    /\ \A i \in 1..Len(calls) : calls[i].block = "cloud_run_services" /\ calls[i].sig \notin Constructors
                                    => calls[i].raised


\* the module has issued something or recorded something
Collecting == calls # <<>> \/ posts # <<>> \/ local # EmptyDict \/ info # EmptyDict

\* C21: while the module loads, academic_coordinator is constructed before
\* anything is collected or posted, and root_agent is bound, to that
\* coordinator, only once the POST has been issued and has returned.  By
\* then all four collectors are merged and serialized, and the loaded
\* module has no step left that would collect or post.
C21_BoundAfterPost ==
    /\ Collecting => academic_coordinator = "academic_coordinator"
    /\ academic_coordinator = "undefined" => pc = "construct"
    /\ pc \in {"post", "crashed"} => root_agent = "unbound"
    /\ root_agent # "unbound" =>
        /\ root_agent = academic_coordinator
        /\ academic_coordinator # "undefined"
        /\ posts = <<PostUrl>>
        /\ pc = "done"
        /\ Keys(info) = TopLevelKeys
        /\ dumped = info
        /\ ~ENABLED Next

\* root_agent is bound after a run that collected from every collector and
\* posted
C21_Witness ==
    /\ root_agent = "academic_coordinator"
    /\ posts = <<PostUrl>>
    /\ \A c \in SeqRange(Collectors) : \E i \in 1..Len(calls) : calls[i].block \in SeqRange(BlocksOf(c))


\* the storage probe of collect_capability_info has listed the buckets, the
\* listing returned, and it held no bucket
EmptyListing ==
    /\ ListBuckets(1) = <<>>
    /\ \E i \in IssuedBy("storage_permissions") :
         calls[i].sig = "list_buckets(max_results=1)" /\ ~calls[i].raised

\* collect_capability_info is past the try of a block
Ran(block) ==
    \/ pc \notin {"construct", "all", "additional", "advanced", "capability"}
    \/ pc = "capability" /\ \E i \in 1..Len(CapabilityBlocks) :
                               CapabilityBlocks[i] = block /\ step > i

\* {"state": ..., "name": ...}
IsStateRecord(v) == v.t = "dict" /\ Keys(v) = {"state", "name"}

\* what the storage probe does and records after an empty listing, and that
\* the project probe then runs
AfterEmptyListing ==
    /\ \A i \in IssuedBy("storage_permissions") : calls[i].sig # "test_iam_permissions(bucket,4)"
    /\ Ran("storage_permissions") =>
        /\ HasKey(Holder("storage_permissions"), "storage_permissions")
        /\ LET v == Get(Holder("storage_permissions"), "storage_permissions")
           IN  /\ IsErrorPair(v)
               /\ Get(v, "type") = JStr("IndexError")
               /\ v # JList(<<>>)
    /\ Ran("project_permissions") =>
        /\ IssuedBy("project_permissions") # {}
        /\ HasKey(Holder("project_permissions"), "project_permissions")
    /\ Ran("service_states") =>
        /\ IssuedBy("service_states") # {}
        /\ HasKey(Holder("service_states"), "service_states")

\* the per-service dict: each of the three services, and nothing else, maps
\* to a state record or to "not_accessible"
PerService(v) ==
    /\ v.t = "dict"
    /\ Keys(v) = SeqRange(QuotaServices)
    /\ \A q \in SeqRange(QuotaServices) :
         Get(v, q) = JStr("not_accessible") \/ IsStateRecord(Get(v, q))

\* C22 as stated: after an empty bucket listing the storage probe issues no
\* test_iam_permissions call and records an IndexError record, not an empty
\* list; the other two probes still run; and service_states maps each of
\* the three services to a state record or to "not_accessible".
C22_ServicesAlwaysMapped ==
    EmptyListing =>
        /\ AfterEmptyListing
        /\ Ran("service_states") =>
             PerService(Get(Holder("service_states"), "service_states"))

\* C22: after an empty bucket listing the storage probe issues no
\* test_iam_permissions call and records an IndexError record, not an empty
\* list; the other two probes still run.  When the service client was
\* constructed, service_states maps each of the three services to a state
\* record or to "not_accessible", the latter exactly for the services whose
\* get_service call raised; when its construction raised, service_states is
\* the error record of that and no get_service call was issued.
C22_EmptyListing ==
    EmptyListing =>
        /\ AfterEmptyListing
        /\ Ran("service_states") =>
             LET v == Get(Holder("service_states"), "service_states")
                 by == IssuedBy("service_states")
             IN  IF \E i \in by : calls[i].sig = "ServiceUsageClient()" /\ calls[i].raised
                 THEN /\ IsErrorPair(v)
                      /\ \A i \in by : calls[i].sig \notin SeqRange(Inner("service_states"))
                 ELSE /\ PerService(v)
                      /\ \A k \in 1..Len(QuotaServices) :
                           \E i \in by :
                             /\ calls[i].sig = Inner("service_states")[k]
                             /\ calls[i].raised <=>
                                  Get(v, QuotaServices[k]) = JStr("not_accessible")

\* after an empty listing the IndexError record is stored, the project probe
\* returned its list, and one service is not accessible while the other two
\* have state records
C22_Witness ==
    /\ EmptyListing
    /\ Ran("service_states")
    /\ Get(Get(Holder("storage_permissions"), "storage_permissions"), "type") = JStr("IndexError")
    /\ Get(Holder("project_permissions"), "project_permissions").t = "list"
    /\ LET v == Get(Holder("service_states"), "service_states")
       IN  /\ PerService(v)
           /\ Get(v, QuotaServices[2]) = JStr("not_accessible")
           /\ IsStateRecord(Get(v, QuotaServices[1]))
           /\ IsStateRecord(Get(v, QuotaServices[3]))


\* the blocks of collect_all_gcp_info that gcp_debug_agent has as tools
SharedBlocks == {"identity", "project", "github_context"}

ToolOf(key) ==
    CASE key = "identity" -> "get_current_identity"
      [] key = "project" -> "get_project_info"
      [] key = "github_context" -> "get_github_context"

BlockOf(t) == CHOOSE key \in SharedBlocks : ToolOf(key) = t

\* which call of a try raised, counted within the try; 0 when none did
FailedAt(block) ==
    LET by == SelectSeq(calls, LAMBDA c : c.block = block)
    IN  IF \E i \in 1..Len(by) : by[i].raised
        THEN CHOOSE i \in 1..Len(by) : by[i].raised
        ELSE 0

\* what collect_all_gcp_info records under a shared key when the f-th call
\* of the block raised
RecordedUnder(key, f) == IF key = "github_context" THEN GithubContext(env) ELSE Stored(key, f, {})

\* what the tool of gcp_debug_agent returns when its f-th call raised
Serialized(t, f) ==
    IF t = "get_github_context" THEN Dumps(GithubContext(env), TRUE, TRUE)
    ELSE Returned(t, f, FALSE)

\* the rule for service_account_email, on an identity object
EmailRule(o) ==
    HasKey(o, "error") \/
        CASE credKind = "public" ->
               HasKey(o, "service_account_email")
               /\ Get(o, "service_account_email") = JStr("sa@public")
          [] credKind = "private" ->
               HasKey(o, "service_account_email")
               /\ Get(o, "service_account_email") = JStr("sa@private")
          [] OTHER -> ~HasKey(o, "service_account_email")

====
